---- MODULE Spec2Model ----
(***************************************************************************)
(* A model of the Ollama-compatible bridge for llama.cpp                    *)
(* (scripts/ollama-gpu-bridge.py and scripts/ollama-gpu-bridge-v2.py):      *)
(* the persistent LlamaCppSession (reader thread, output queue, generate),  *)
(* the model registry (scan_models, get_model_path) and the session table   *)
(* (get_or_create_session).                                                 *)
(*                                                                          *)
(* Text is a sequence of one-character strings, so that strip, lower,       *)
(* replace, split and substring tests are computed as Python computes them. *)
(* Time is counted in ticks of one queue-poll timeout (0.1 s).              *)
(***************************************************************************)
EXTENDS Integers, Sequences, FiniteSets, TLC

VARIABLES
    now,                \* wall clock, in ticks of 0.1 s
    process,            \* LlamaCppSession.process: NoProcess or the child's pid
    spawned,            \* number of child processes started so far
    stdin,              \* what has been written to the child's standard input
    output_queue,       \* LlamaCppSession.output_queue
    nread,              \* lines the reader thread has read from the child
    pc,                 \* per caller: position inside generate
    prompt,             \* per caller: argument of generate
    stream,             \* per caller: argument of generate
    response_lines,     \* per caller: local of generate
    empty_line_count,   \* per caller: local of generate
    start_time,         \* per caller: local of generate
    chunks,             \* per caller: what the generator has yielded
    dequeued,           \* per caller: lines taken from the queue by the poll loop
    drained,            \* per caller: lines discarded by the stale-output drain
    endedBy,            \* per caller: which rule left the poll loop
    last_line_time,     \* per caller: when the last line was appended to response_lines
    disk,               \* the files of MODELS_DIR, in the order glob() enumerates them
    MODEL_REGISTRY,     \* the dict alias -> path, as <<alias, path>> in insertion order
    scanned,            \* the files of MODELS_DIR as the last scan_models() found them
    last,               \* the get_model_path call being answered: its argument and result
    scan_history,       \* what the last scan since MODELS_DIR changed replaced: see ScanKind
    ACTIVE_SESSIONS,    \* the dict requested name -> session
    returned,           \* the get_or_create_session call being answered, and its result
    scan_pc,            \* position of the thread that runs scan_models statement by statement
    todo,               \* the assignments that thread has still to make
    before,             \* the mapping that thread found when it entered scan_models
    run_pc,             \* position inside run_llama_generation
    run_stream,         \* run_llama_generation: argument stream
    child,              \* the one-shot child: "none", "running" or "exited"
    stdout_open,        \* the child has not closed its standard output
    pipe,               \* lines the child has written and the runner has not read
    nwritten,           \* lines the child has written
    returncode,         \* process.returncode
    bad_stderr,         \* the child's standard error holds bytes that are no text
    full_response,      \* run_llama_generation: local full_response
    yielded,            \* the chunks the generator has yielded
    consumed,           \* the raw lines readline() has returned, in order
    ended_child,        \* what child was when the generator ended
    exc,                \* str(e) of the exception raised inside the try block, if any
    alive,              \* the pids of the children that have not been terminated
    readers,            \* per reader thread: its position in _read_output and the child it reads
    life,               \* the session's state: "UNSTARTED", "RUNNING" or "STOPPED"
    last_call,          \* the last start, stop or cleanup call, and whether it found work
    cleared,            \* the pids whose handle stop() has set to None
    cleanup_pc,         \* where cleanup is: "idle", "loop", "clear", "returned", "raised"
    cleanup_left,       \* the names whose sessions the loop of cleanup has yet to stop
    cleanup_size,       \* the size of the table when the loop's iterator was made
    cleanup_calls,      \* how many times cleanup has been called
    dropped,            \* the pids of the sessions that clear() removed from the table
    emitted,            \* the lines the session's child has written to its standard output
    records,            \* per caller, the data records its streaming response has sent
    goc,                \* per request thread, where it is in get_or_create_session
    models_dir,         \* whether the directory MODELS_DIR exists
    stderr_pipe         \* lines of the one-shot child's standard error that nothing has read

loopVars == <<now, process, stdin, output_queue, nread, pc, prompt, stream,
              response_lines, empty_line_count, start_time, chunks, dequeued,
              drained, endedBy, last_line_time>>

runVars == <<run_pc, run_stream, child, stdout_open, pipe, nwritten, returncode,
             bad_stderr, full_response, yielded, consumed, ended_child, exc,
             stderr_pipe>>

shutVars == <<cleanup_pc, cleanup_left, cleanup_size, cleanup_calls, dropped>>

moreVars == <<emitted, records, goc>>

lifeVars == <<alive, readers, life, last_call, cleared, shutVars, moreVars>>

callVars == <<loopVars, runVars, lifeVars>>

genVars == <<spawned, callVars>>

dirVars == <<disk, MODEL_REGISTRY, scanned, last, scan_history>>

sessVars == <<ACTIVE_SESSIONS, returned>>

tornVars == <<scan_pc, todo, before>>

regVars == <<dirVars, sessVars, tornVars, models_dir>>

vars == <<genVars, regVars>>

None == "None"

\* no exception has been raised
NoError == <<>>

\* self.process = NoProcess (line 79); the pids of child processes count from 1
NoProcess == 0

----------------------------------------------------------------------------
(* Text                                                                     *)

NL == "\n"
SP == " "

\* str.isspace for the characters of the model
IsSpace(c) == c \in {SP, NL, "\t", "\r"}

RECURSIVE RStrip(_)
\* str.rstrip()
RStrip(s) ==
    IF s = <<>> THEN <<>>
    ELSE IF IsSpace(s[Len(s)]) THEN RStrip(SubSeq(s, 1, Len(s) - 1))
    ELSE s

RECURSIVE LStrip(_)
\* str.lstrip()
LStrip(s) ==
    IF s = <<>> THEN <<>>
    ELSE IF IsSpace(Head(s)) THEN LStrip(Tail(s))
    ELSE s

\* str.strip()
Strip(s) == LStrip(RStrip(s))

RECURSIVE Join(_)
\* "\n".join(lines)
Join(lines) ==
    IF lines = <<>> THEN <<>>
    ELSE IF Len(lines) = 1 THEN lines[1]
    ELSE lines[1] \o <<NL>> \o Join(Tail(lines))

\* the letters str.lower() changes, and what it changes them to
UpperCase == <<"A", "B", "C", "D", "E", "F", "G", "H", "I", "J", "K", "L", "M",
               "N", "O", "P", "Q", "R", "S", "T", "U", "V", "W", "X", "Y", "Z">>
LowerCase == <<"a", "b", "c", "d", "e", "f", "g", "h", "i", "j", "k", "l", "m",
               "n", "o", "p", "q", "r", "s", "t", "u", "v", "w", "x", "y", "z">>

\* c.lower(), for every one-character text c
LowerChar(c) ==
    IF \E i \in 1..Len(UpperCase) : UpperCase[i] = c
    THEN LowerCase[CHOOSE i \in 1..Len(UpperCase) : UpperCase[i] = c]
    ELSE c

\* the capitals and what they become, as a table
LowerTable == [c \in {UpperCase[i] : i \in 1..Len(UpperCase)} |-> LowerChar(c)]

\* str.lower()
Lower(s) == [i \in 1..Len(s) |-> IF s[i] \in DOMAIN LowerTable THEN LowerTable[s[i]] ELSE s[i]]

\* str.replace(a, b) for one-character a and b
Replace(s, a, b) == [i \in 1..Len(s) |-> IF s[i] = a THEN b ELSE s[i]]

\* s[i:i+len(t)] == t, for a position i of s
MatchAt(s, t, i) == \A k \in 1..Len(t) : s[i + k - 1] = t[k]

\* needle in hay
Contains(needle, hay) ==
    \E i \in 1..(Len(hay) - Len(needle) + 1) : MatchAt(hay, needle, i)

\* s.endswith(suf)
EndsWith(s, suf) == Len(s) >= Len(suf) /\ MatchAt(s, suf, Len(s) - Len(suf) + 1)

\* the positions of character c in s
Positions(s, c) == {i \in 1..Len(s) : s[i] = c}

\* the largest element of a non-empty set of numbers
Max(S) == CHOOSE x \in S : \A y \in S : y <= x

\* the smallest element of a non-empty set of numbers
Min(S) == CHOOSE x \in S : \A y \in S : x <= y

\* s.split(":")[0]
BeforeColon(s) ==
    IF Positions(s, ":") = {} THEN s ELSE SubSeq(s, 1, Min(Positions(s, ":")) - 1)

\* pathlib: the last dot of a name starts its suffix unless it is the first or
\* the last character of the name
SuffixAt(name) ==
    IF Positions(name, ".") = {} THEN 0
    ELSE LET i == Max(Positions(name, "."))
         IN  IF 1 < i /\ i < Len(name) THEN i ELSE 0

\* PurePath.suffix
Suffix(name) == IF SuffixAt(name) = 0 THEN <<>> ELSE SubSeq(name, SuffixAt(name), Len(name))

\* PurePath.stem
PathStem(name) == IF SuffixAt(name) = 0 THEN name ELSE SubSeq(name, 1, SuffixAt(name) - 1)

----------------------------------------------------------------------------
(* Bounds and the inputs the model draws                                    *)

MaxLines == 4       \* lines the child writes in a run of the line-level model
MaxTimedLines == 2  \* lines the child writes in a run of the timing model
ShortHorizon == 3   \* clock cap of the line-level model
LongHorizon == 303  \* clock cap of the timing model (just past the budget)
ConcHorizon == 22   \* clock cap of the two-caller model (just past the idle limit)
MaxAnswers == 2     \* lines the child writes in a run of the two-caller model

Callers == {1, 2}

Q == <<"Q">>
\* prompts of generate: an ordinary one, and one that is blank after trimming
\* (chat() builds "" from messages that carry no user/assistant/system text)
Prompts == {Q, <<>>}

HiRaw == <<"H", "i", SP, NL>>
BlankRaw == <<NL>>
ThereRaw == <<"t", "h", "e", "r", "e", NL>>
EchoRaw == <<SP, "Q", NL>>
\* what readline() can return from the child's standard output
RawLines == {HiRaw, BlankRaw, ThereRaw, EchoRaw}

R == <<"R">>
\* prompts of the two-caller model: distinct, so that an answer names its request
ConcPrompt(t) == IF t = 1 THEN Q ELSE R

\* the child of the two-caller model answers each line of its standard input,
\* in the order written, with one line that repeats it after "A"
AnswerRaw(written) == <<"A">> \o written

Hi == <<"H", "i">>
There == <<"t", "h", "e", "r", "e">>
Blank == <<>>

----------------------------------------------------------------------------
(* The model registry: scan_models and get_model_path                       *)

MaxFiles == 2       \* files in MODELS_DIR

GGUF == <<".", "g", "g", "u", "f">>
LATEST == <<":", "l", "a", "t", "e", "s", "t">>

\* file names MODELS_DIR may hold: a plain model, a model whose stem is the
\* other's file name, two models of the phi family (one with capitals, a space
\* and a tag in its stem), and a file that is no model
FileNames == {<<"m", ".", "g", "g", "u", "f">>,
              <<"m", ".", "g", "g", "u", "f", ".", "g", "g", "u", "f">>,
              <<"p", "h", "i", "-", "2", ".", "g", "g", "u", "f">>,
              <<"P", "h", "i", " ", "3", ":", "l", "a", "t", "e", "s", "t", ".", "g", "g",
                "u", "f">>,
              <<"n", ".", "t", "x", "t">>}

\* model names a request may carry, besides the file names themselves
OtherNames == {<<"m">>,
               <<"P", "H", "I", "-", "2">>,
               <<"P", "H", "I", " ", "2">>,
               <<"p", "h", "i", "_", "3">>,
               <<"p", "h", "i", ":", "7", "b">>,
               <<"p", "h", "i", " ", "3", ":", "7", "b">>,
               <<"H", "I">>,
               <<"q">>,
               <<>>}

QueryNames == FileNames \cup OtherNames

\* str(MODELS_DIR / name)
MODELS_DIR == <<"~">>
PathStr(name) == MODELS_DIR \o <<"/">> \o name

\* a glob that gives every file of the directory
GlobAll(files) == files

\* MODELS_DIR.glob("*.gguf"): the files whose name ends in .gguf, as enumerated
Glob(files) == SelectSeq(files, LAMBDA f : EndsWith(f, GGUF))

\* (MODELS_DIR / name).exists(); the empty name is the directory itself
Exists(files, name) == name = <<>> \/ \E i \in 1..Len(files) : files[i] = name

\* key in MODEL_REGISTRY
InRegistry(reg, key) == \E i \in 1..Len(reg) : reg[i][1] = key

\* MODEL_REGISTRY[key]
Lookup(reg, key) == reg[CHOOSE i \in 1..Len(reg) : reg[i][1] = key][2]

\* MODEL_REGISTRY[key] = path: a new key goes last, a known key keeps its place
Put(reg, key, path) ==
    IF InRegistry(reg, key)
    THEN [i \in 1..Len(reg) |-> IF reg[i][1] = key THEN <<key, path>> ELSE reg[i]]
    ELSE Append(reg, <<key, path>>)

RECURSIVE PutAll(_, _)
\* the assignments of a sequence <<key, path>>, in order
PutAll(reg, assignments) ==
    IF assignments = <<>> THEN reg
    ELSE PutAll(Put(reg, assignments[1][1], assignments[1][2]), Tail(assignments))

\* the aliases one if-block of lines 220-258 registers
Tags(cond, aliases, path) ==
    IF cond THEN [i \in 1..Len(aliases) |-> <<aliases[i], path>>] ELSE <<>>

\* lines 201-258: the assignments the loop body makes for one file
FileAssignments(filename) ==
    LET path_str == PathStr(filename)
        stem == PathStem(filename)
        stem_lower == Lower(stem)
        simple_name == Replace(Replace(stem_lower, "-", "_"), ".", "_")
        has(token) == Contains(token, stem_lower)
    IN  <<<<filename, path_str>>, <<stem, path_str>>, <<stem_lower, path_str>>,
          <<simple_name, path_str>>>>
        \o Tags(has(<<"t", "i", "n", "y", "l", "l", "a", "m", "a">>),
                <<<<"t", "i", "n", "y", "l", "l", "a", "m", "a">>,
                  <<"t", "i", "n", "y", "l", "l", "a", "m", "a", ":", "l", "a", "t", "e", "s",
                    "t">>,
                  <<"t", "i", "n", "y", "l", "l", "a", "m", "a", ":", "1", "b">>,
                  <<"t", "i", "n", "y", "l", "l", "a", "m", "a", ":", "1", ".", "1", "b">>>>,
                    path_str)
        \o Tags(has(<<"l", "l", "a", "m", "a">>) /\ has(<<"3", ".", "2">>),
                <<<<"l", "l", "a", "m", "a", "3", ".", "2", ":", "1", "b">>,
                  <<"l", "l", "a", "m", "a", "3", ".", "2">>,
                  <<"l", "l", "a", "m", "a", "3", ":", "l", "a", "t", "e", "s", "t">>,
                  <<"l", "l", "a", "m", "a", "3">>>>, path_str)
        \o Tags(has(<<"l", "l", "a", "m", "a", "3">>),
                <<<<"l", "l", "a", "m", "a", "3">>,
                  <<"l", "l", "a", "m", "a", "3", ":", "l", "a", "t", "e", "s", "t">>>>, path_str)
        \o Tags(has(<<"l", "l", "a", "m", "a", "3">>) /\ has(<<"1", "b">>),
                <<<<"l", "l", "a", "m", "a", "3", ":", "1", "b">>,
                  <<"l", "l", "a", "m", "a", "3", ".", "2", ":", "1", "b">>>>, path_str)
        \o Tags(has(<<"l", "l", "a", "m", "a", "3">>) /\ ~has(<<"1", "b">>) /\ has(<<"3", "b">>),
                <<<<"l", "l", "a", "m", "a", "3", ":", "3", "b">>>>, path_str)
        \o Tags(has(<<"l", "l", "a", "m", "a", "3">>) /\ ~has(<<"1", "b">>) /\ ~has(<<"3", "b">>)
                    /\ (has(<<"7", "b">>) \/ has(<<"8", "b">>)),
                <<<<"l", "l", "a", "m", "a", "3", ":", "8", "b">>>>, path_str)
        \o Tags(has(<<"p", "h", "i">>),
                <<<<"p", "h", "i", "3", ":", "m", "i", "n", "i">>,
                  <<"p", "h", "i", "3", ":", "l", "a", "t", "e", "s", "t">>,
                  <<"p", "h", "i", "3">>,
                  <<"p", "h", "i">>>>, path_str)
        \o Tags(has(<<"g", "e", "m", "m", "a">>),
                <<<<"g", "e", "m", "m", "a", ":", "2", "b">>,
                  <<"g", "e", "m", "m", "a", ":", "l", "a", "t", "e", "s", "t">>,
                  <<"g", "e", "m", "m", "a">>>>, path_str)
        \o Tags(has(<<"q", "w", "e", "n">>),
                <<<<"q", "w", "e", "n", ":", "1", ".", "8", "b">>,
                  <<"q", "w", "e", "n", ":", "l", "a", "t", "e", "s", "t">>,
                  <<"q", "w", "e", "n", ":", "1", ".", "5", "b">>,
                  <<"q", "w", "e", "n">>>>, path_str)

RECURSIVE ScanFiles(_, _)
\* lines 200-258: the loop over the globbed files
ScanFiles(reg, files) ==
    IF files = <<>> THEN reg
    ELSE ScanFiles(PutAll(reg, FileAssignments(files[1])), Tail(files))

\* a scan that patches the mapping it finds instead of starting from an empty one
ScanPatching(reg, files) == ScanFiles(reg, Glob(files))

\* lines 191-258: scan_models() starts from an empty dict; reg is the mapping
\* it finds
ScanResult(reg, files) == ScanFiles(<<>>, Glob(files))

----------------------------------------------------------------------------
(* LlamaCppSession.generate: the conditions of the poll loop                *)

PollTimeout == 1            \* get(timeout=0.1): one tick
IdleLimit == 20             \* 2 seconds
Budget == 300               \* 30 seconds

\* an echo test that compares the line with the prompt as they are
IsEchoExact(line, p) == line = p

\* line 156: if line.strip() == prompt.strip(): continue
IsEcho(line, p) == Strip(line) = Strip(p)

\* a blank-line rule that needs one more blank line
EmptyLineBreakLate(count) == count > 3

\* line 162: if empty_line_count > 2: break
EmptyLineBreak(count) == count > 2

\* line 172: if time.time() - start_time > 30: break
BudgetExceeded(t, t0) == t - t0 > Budget

\* line 177: if response_lines and time.time() - start_time > 2: break
IdleBreak(lines, t, t0) == lines # <<>> /\ t - t0 > IdleLimit

----------------------------------------------------------------------------
(* LlamaCppSession: start, the reader thread, generate                      *)

StartSleep == 10            \* line 136: time.sleep(1)

MaxSpawns == 2              \* children one session starts

\* the reader threads, named by the pid of the child start() made them for
ReaderIds == 1..MaxSpawns

\* a reader thread that was never created
NoReader == [pc |-> "none", src |-> NoProcess]

\* lines 116-119: the thread start() creates, about to test its loop condition
NewReader == [pc |-> "check", src |-> NoProcess]

\* lines 84-119: start() spawns the child once and a reader thread for it; a
\* call on a session that has a process returns at once
Start ==
    IF process # NoProcess
    THEN UNCHANGED <<process, spawned, alive, readers, life>>
    ELSE /\ spawned < MaxSpawns
         /\ process' = spawned + 1
         /\ spawned' = spawned + 1
         /\ alive' = alive \cup {spawned + 1}
         /\ readers' = [readers EXCEPT ![spawned + 1] = NewReader]
         /\ life' = "RUNNING"

\* lines 123-127: one turn of the reader thread's loop: readline() returned
\* raw, and raw.rstrip() is put on the queue
ReadOutput(raw, cap) ==
    /\ nread < cap
    /\ process # NoProcess
    /\ raw # <<>>
    /\ output_queue' = Append(output_queue, RStrip(raw))
    /\ nread' = nread + 1
    /\ UNCHANGED <<now, process, spawned, stdin, pc, prompt, stream, response_lines,
                   empty_line_count, start_time, chunks, dequeued, drained, endedBy,
                   last_line_time, regVars, runVars, lifeVars>>

\* lines 132-136: the call begins; a session without a process is started
GenBegin(t, p, s) ==
    /\ pc[t] = "idle"
    /\ prompt' = [prompt EXCEPT ![t] = p]
    /\ stream' = [stream EXCEPT ![t] = s]
    /\ Start
    /\ now' = IF process = NoProcess THEN now + StartSleep ELSE now
    /\ pc' = [pc EXCEPT ![t] = "drain"]
    /\ UNCHANGED <<stdin, output_queue, nread, response_lines, empty_line_count,
                   start_time, chunks, dequeued, drained, endedBy, last_line_time, regVars,
                   runVars, last_call, cleared, shutVars, moreVars>>

\* line 139: while not self.output_queue.empty()
GenDrainCheck(t) ==
    /\ pc[t] = "drain"
    /\ pc' = [pc EXCEPT ![t] = IF output_queue = <<>> THEN "write" ELSE "drain_get"]
    /\ UNCHANGED <<now, process, spawned, stdin, output_queue, nread, prompt, stream,
                   response_lines, empty_line_count, start_time, chunks, dequeued,
                   drained, endedBy, last_line_time, regVars, runVars, lifeVars>>

\* line 140: self.output_queue.get_nowait()
GenDrainGet(t) ==
    /\ pc[t] = "drain_get"
    /\ output_queue # <<>>
    /\ drained' = [drained EXCEPT ![t] = Append(@, Head(output_queue))]
    /\ output_queue' = Tail(output_queue)
    /\ pc' = [pc EXCEPT ![t] = "drain"]
    /\ UNCHANGED <<now, process, spawned, stdin, nread, prompt, stream, response_lines,
                   empty_line_count, start_time, chunks, dequeued, endedBy, last_line_time,
                   regVars, runVars, lifeVars>>

\* line 140 when another caller emptied the queue after the test of line 139:
\* get_nowait() raises queue.Empty, which nothing in generate catches there
GenDrainRaise(t) ==
    /\ pc[t] = "drain_get"
    /\ output_queue = <<>>
    /\ pc' = [pc EXCEPT ![t] = "raised"]
    /\ UNCHANGED <<now, process, spawned, stdin, output_queue, nread, prompt, stream,
                   response_lines, empty_line_count, start_time, chunks, dequeued,
                   drained, endedBy, last_line_time, regVars, runVars, lifeVars>>

\* a generate that holds a per-session lock from its write to its end: the
\* prompt is written only while no other caller is polling
GenWriteLocked(t) ==
    /\ pc[t] = "write"
    /\ \A u \in Callers \ {t} : pc[u] \notin {"poll", "finish"}
    /\ stdin' = Append(stdin, prompt[t] \o <<NL>>)
    /\ response_lines' = [response_lines EXCEPT ![t] = <<>>]
    /\ empty_line_count' = [empty_line_count EXCEPT ![t] = 0]
    /\ start_time' = [start_time EXCEPT ![t] = now]
    /\ last_line_time' = [last_line_time EXCEPT ![t] = now]
    /\ pc' = [pc EXCEPT ![t] = "poll"]
    /\ UNCHANGED <<now, process, spawned, output_queue, nread, prompt, stream, chunks,
                   dequeued, drained, endedBy, regVars, runVars, lifeVars>>

\* a generate that answers a write to a closed pipe by starting a new child
\* and writing the prompt again
GenWriteRetry(t) ==
    /\ pc[t] = "write"
    /\ IF process \in alive
       THEN UNCHANGED <<process, spawned, alive, readers, life>>
       ELSE /\ spawned < MaxSpawns
            /\ process' = spawned + 1
            /\ spawned' = spawned + 1
            /\ alive' = alive \cup {spawned + 1}
            /\ readers' = [readers EXCEPT ![spawned + 1] = NewReader]
            /\ life' = "RUNNING"
    /\ stdin' = Append(stdin, prompt[t] \o <<NL>>)
    /\ response_lines' = [response_lines EXCEPT ![t] = <<>>]
    /\ empty_line_count' = [empty_line_count EXCEPT ![t] = 0]
    /\ start_time' = [start_time EXCEPT ![t] = now]
    /\ last_line_time' = [last_line_time EXCEPT ![t] = now]
    /\ pc' = [pc EXCEPT ![t] = "poll"]
    /\ UNCHANGED <<now, output_queue, nread, prompt, stream, chunks, dequeued, drained,
                   endedBy, regVars, runVars, last_call, cleared, shutVars, moreVars>>

\* lines 143-149: the prompt and a line break are written, the locals are set
GenWrite(t) ==
    /\ pc[t] = "write"
    /\ IF process \in alive
       THEN /\ stdin' = Append(stdin, prompt[t] \o <<NL>>)
            /\ response_lines' = [response_lines EXCEPT ![t] = <<>>]
            /\ empty_line_count' = [empty_line_count EXCEPT ![t] = 0]
            /\ start_time' = [start_time EXCEPT ![t] = now]
            /\ last_line_time' = [last_line_time EXCEPT ![t] = now]
            /\ pc' = [pc EXCEPT ![t] = "poll"]
       ELSE \* the child has exited: the write to its closed pipe raises
            \* BrokenPipeError, which nothing in generate catches
            /\ pc' = [pc EXCEPT ![t] = "raised"]
            /\ UNCHANGED <<stdin, response_lines, empty_line_count, start_time,
                           last_line_time>>
    /\ UNCHANGED <<now, process, spawned, output_queue, nread, prompt, stream, chunks,
                   dequeued, drained, endedBy, regVars, runVars, lifeVars>>

\* lines 153-173: get() returned a line
GenPollLine(t) ==
    /\ pc[t] = "poll"
    /\ output_queue # <<>>
    /\ LET line == Head(output_queue)
           count == empty_line_count[t] + 1
           late == BudgetExceeded(now, start_time[t])
       IN  /\ output_queue' = Tail(output_queue)
           /\ dequeued' = [dequeued EXCEPT ![t] = Append(@, line)]
           /\ IF IsEcho(line, prompt[t])
              THEN \* continue
                   UNCHANGED <<empty_line_count, response_lines, chunks, pc, endedBy,
                               last_line_time>>
              ELSE IF line = <<>>
              THEN /\ empty_line_count' = [empty_line_count EXCEPT ![t] = count]
                   /\ UNCHANGED <<response_lines, chunks, last_line_time>>
                   /\ IF EmptyLineBreak(count)
                      THEN /\ pc' = [pc EXCEPT ![t] = "finish"]
                           /\ endedBy' = [endedBy EXCEPT ![t] = "blank"]
                      ELSE IF late
                      THEN /\ pc' = [pc EXCEPT ![t] = "finish"]
                           /\ endedBy' = [endedBy EXCEPT ![t] = "budget"]
                      ELSE UNCHANGED <<pc, endedBy>>
              ELSE /\ empty_line_count' = [empty_line_count EXCEPT ![t] = 0]
                   /\ response_lines' = [response_lines EXCEPT ![t] = Append(@, line)]
                   /\ last_line_time' = [last_line_time EXCEPT ![t] = now]
                   /\ chunks' = [chunks EXCEPT ![t] =
                                    IF stream[t] THEN Append(@, line \o <<NL>>) ELSE @]
                   /\ IF late
                      THEN /\ pc' = [pc EXCEPT ![t] = "finish"]
                           /\ endedBy' = [endedBy EXCEPT ![t] = "budget"]
                      ELSE UNCHANGED <<pc, endedBy>>
    /\ UNCHANGED <<now, process, spawned, stdin, nread, prompt, stream, start_time,
                   drained, regVars, runVars, lifeVars>>

\* lines 153, 175-179: get() found nothing for its whole timeout
GenPollEmpty(t, horizon) ==
    /\ now < horizon
    /\ pc[t] = "poll"
    /\ output_queue = <<>>
    /\ now' = now + PollTimeout
    /\ IF IdleBreak(response_lines[t], now', start_time[t])
       THEN /\ pc' = [pc EXCEPT ![t] = "finish"]
            /\ endedBy' = [endedBy EXCEPT ![t] = "idle"]
       ELSE UNCHANGED <<pc, endedBy>>
    /\ UNCHANGED <<process, spawned, stdin, output_queue, nread, prompt, stream,
                   response_lines, empty_line_count, start_time, chunks, dequeued,
                   drained, last_line_time, regVars, runVars, lifeVars>>

\* a generate that, when not streaming, yields the collected lines one by
\* one after the loop
GenFinishLines(t) ==
    /\ pc[t] = "finish"
    /\ chunks' = [chunks EXCEPT ![t] =
                     IF stream[t] THEN @
                     ELSE [i \in 1..Len(response_lines[t]) |->
                              response_lines[t][i] \o <<NL>>]]
    /\ pc' = [pc EXCEPT ![t] = "done"]
    /\ UNCHANGED <<now, process, spawned, stdin, output_queue, nread, prompt, stream,
                   response_lines, empty_line_count, start_time, dequeued, drained,
                   endedBy, last_line_time, regVars, runVars, lifeVars>>

\* lines 181-182: after the loop, the non-streaming result is yielded once
GenFinish(t) ==
    /\ pc[t] = "finish"
    /\ chunks' = [chunks EXCEPT ![t] =
                     IF stream[t] THEN @ ELSE Append(@, Join(response_lines[t]))]
    /\ pc' = [pc EXCEPT ![t] = "done"]
    /\ UNCHANGED <<now, process, spawned, stdin, output_queue, nread, prompt, stream,
                   response_lines, empty_line_count, start_time, dequeued, drained,
                   endedBy, last_line_time, regVars, runVars, lifeVars>>

\* what every specification starts from, the session's process apart
InitRest ==
    /\ now = 0
    /\ stdin = <<>>
    /\ output_queue = <<>>
    /\ nread = 0
    /\ pc = [t \in Callers |-> "idle"]
    /\ prompt = [t \in Callers |-> <<>>]
    /\ stream = [t \in Callers |-> TRUE]
    /\ response_lines = [t \in Callers |-> <<>>]
    /\ empty_line_count = [t \in Callers |-> 0]
    /\ start_time = [t \in Callers |-> 0]
    /\ chunks = [t \in Callers |-> <<>>]
    /\ dequeued = [t \in Callers |-> <<>>]
    /\ drained = [t \in Callers |-> <<>>]
    /\ endedBy = [t \in Callers |-> None]
    /\ last_line_time = [t \in Callers |-> 0]
    /\ disk = <<>>
    /\ MODEL_REGISTRY = <<>>
    /\ scanned = <<>>
    /\ last = <<>>
    /\ scan_history = "none"
    /\ ACTIVE_SESSIONS = <<>>
    /\ returned = <<>>
    /\ scan_pc = "idle"
    /\ todo = <<>>
    /\ before = <<>>
    /\ run_pc = "idle"
    /\ run_stream = TRUE
    /\ child = "none"
    /\ stdout_open = FALSE
    /\ pipe = <<>>
    /\ nwritten = 0
    /\ returncode = 0
    /\ bad_stderr = FALSE
    /\ stderr_pipe = 0
    /\ full_response = <<>>
    /\ yielded = <<>>
    /\ consumed = <<>>
    /\ ended_child = "none"
    /\ exc = NoError
    /\ last_call = "none"
    /\ cleared = {}
    /\ cleanup_pc = "idle"
    /\ cleanup_left = {}
    /\ cleanup_size = 0
    /\ cleanup_calls = 0
    /\ dropped = {}
    /\ emitted = <<>>
    /\ models_dir = TRUE
    /\ records = [t \in Callers |-> <<>>]
    /\ goc = [t \in Callers |-> [pc |-> "idle"]]


\* a session that get_or_create_session has constructed and started: its child
\* runs and its reader thread is about to test the loop condition
InitGen ==
    /\ process = 1
    /\ spawned = 1
    /\ alive = {1}
    /\ readers = [r \in ReaderIds |-> IF r = 1 THEN NewReader ELSE NoReader]
    /\ life = "RUNNING"
    /\ InitRest

\* lines 76-82: a session that has been constructed and not started
InitLife ==
    /\ process = NoProcess
    /\ spawned = 0
    /\ alive = {}
    /\ readers = [r \in ReaderIds |-> NoReader]
    /\ life = "UNSTARTED"
    /\ InitRest

\* one generate call by caller 1, with the child writing any lines at any time:
\* the line-level model has up to MaxLines lines and a short stretch of time
NextLines ==
    \/ \E raw \in RawLines : ReadOutput(raw, MaxLines)
    \/ \E p \in Prompts, s \in BOOLEAN : GenBegin(1, p, s)
    \/ GenDrainCheck(1)
    \/ GenDrainGet(1)
    \/ GenWrite(1)
    \/ GenPollLine(1)
    \/ GenPollEmpty(1, ShortHorizon)
    \/ GenFinish(1)

SpecLines == InitGen /\ [][NextLines]_vars

\* the timing model has up to MaxTimedLines lines and time up to past the budget
NextTime ==
    \/ \E raw \in RawLines : ReadOutput(raw, MaxTimedLines)
    \/ \E p \in Prompts, s \in BOOLEAN : GenBegin(1, p, s)
    \/ GenDrainCheck(1)
    \/ GenDrainGet(1)
    \/ GenWrite(1)
    \/ GenPollLine(1)
    \/ GenPollEmpty(1, LongHorizon)
    \/ GenFinish(1)

SpecTime == InitGen /\ [][NextTime]_vars

\* the reader thread reads the child's answer to the next unanswered prompt
ReadAnswer ==
    /\ nread < Len(stdin)
    /\ ReadOutput(AnswerRaw(stdin[nread + 1]), MaxAnswers)

\* two callers in generate on the same session, as two request threads of the
\* threaded server (line 696) run it
NextConc ==
    \/ ReadAnswer
    \/ \E t \in Callers, s \in BOOLEAN : GenBegin(t, ConcPrompt(t), s)
    \/ \E t \in Callers : GenDrainCheck(t)
    \/ \E t \in Callers : GenDrainGet(t)
    \/ \E t \in Callers : GenDrainRaise(t)
    \/ \E t \in Callers : GenWrite(t)
    \/ \E t \in Callers : GenPollLine(t)
    \/ \E t \in Callers : GenPollEmpty(t, ConcHorizon)
    \/ \E t \in Callers : GenFinish(t)

SpecConc == InitGen /\ [][NextConc]_vars

\* get_model_path returns None: no path is the empty text
NotFound == <<>>

\* lines 271-272: direct lookup
Rule1(name, reg) == IF InRegistry(reg, name) THEN Lookup(reg, name) ELSE NotFound

\* lines 275-277: lowercase lookup
Rule2(name, reg) == Rule1(Lower(name), reg)

\* lines 281-286
Variations(name) ==
    <<Replace(name, SP, "-"), Replace(name, SP, "_"),
      Replace(name, "-", "_"), Replace(name, "_", "-")>>

RECURSIVE TryVariants(_, _)
\* lines 288-292: each variant exact, then lowercase
TryVariants(variants, reg) ==
    IF variants = <<>> THEN NotFound
    ELSE IF InRegistry(reg, variants[1]) THEN Lookup(reg, variants[1])
    ELSE IF InRegistry(reg, Lower(variants[1])) THEN Lookup(reg, Lower(variants[1]))
    ELSE TryVariants(Tail(variants), reg)

Rule3(name, reg) == TryVariants(Variations(name), reg)

\* lines 295-300: without the tag, then with the tag "latest"
Rule4(name, reg) ==
    IF Positions(name, ":") = {} THEN NotFound
    ELSE LET base_name == BeforeColon(name)
         IN  IF InRegistry(reg, base_name) THEN Lookup(reg, base_name)
             ELSE IF InRegistry(reg, base_name \o LATEST)
             THEN Lookup(reg, base_name \o LATEST)
             ELSE NotFound

\* line 306: model_name.lower() in key.lower() or key.lower() in model_name.lower()
PartialMatch(name, key) ==
    LET name_lower == Lower(name)
        key_lower == Lower(key)
    IN  Contains(name_lower, key_lower) \/ Contains(key_lower, name_lower)

\* lines 304-308: the first key, in the dict's order, that matches partially
Rule5(name, reg) ==
    LET hits == {i \in 1..Len(reg) : PartialMatch(name, reg[i][1])}
    IN  IF hits = {} THEN NotFound ELSE reg[Min(hits)][2]

\* lines 311-318: the name, or the name with .gguf added, as a file of MODELS_DIR
Rule6(name, files) ==
    IF Exists(files, name) /\ Suffix(name) = GGUF THEN PathStr(name)
    ELSE IF Exists(files, name \o GGUF) THEN PathStr(name \o GGUF)
    ELSE NotFound

\* a lookup that tries the partial match before the tag rule
RulesSwapped(name, reg, files) ==
    <<Rule1(name, reg), Rule2(name, reg), Rule3(name, reg), Rule5(name, reg),
      Rule4(name, reg), Rule6(name, files)>>

\* lines 270-318: what each rule finds, in the order get_model_path tries them
Rules(name, reg, files) ==
    <<Rule1(name, reg), Rule2(name, reg), Rule3(name, reg), Rule4(name, reg),
      Rule5(name, reg), Rule6(name, files)>>

\* lines 270-322: the first rule that finds a path returns it; rule 0 is
\* "return None"
Resolve(name, reg, files) ==
    LET found == Rules(name, reg, files)
        hits == {k \in 1..Len(found) : found[k] # NotFound}
    IN  IF hits = {} THEN [name |-> name, path |-> NotFound, rule |-> 0]
        ELSE [name |-> name, path |-> found[Min(hits)], rule |-> Min(hits)]

\* lines 267-268: an empty registry is scanned first
Refreshed(reg, files) == IF reg = <<>> THEN ScanResult(reg, files) ELSE reg

\* what a scan_models() call replaces: no mapping ("first"), a mapping scanned
\* from other directory contents ("replaced"), or the mapping an earlier scan
\* made from the same contents ("again"; "again_replaced" when that earlier
\* scan had replaced one)
ScanKind(reg, same, kind) ==
    IF reg = <<>> THEN "first"
    ELSE IF ~same THEN "replaced"
    ELSE IF kind \in {"replaced", "again_replaced"} THEN "again_replaced"
    ELSE "again"

\* scan_models(), as list_models and the start-up call it
scan_models ==
    /\ last = <<>>
    /\ MODEL_REGISTRY' = IF models_dir THEN ScanResult(MODEL_REGISTRY, disk) ELSE <<>>
    /\ models_dir' = TRUE
    /\ scanned' = disk
    /\ scan_history' = ScanKind(MODEL_REGISTRY, scanned = disk, scan_history)
    /\ UNCHANGED <<disk, last, genVars, sessVars, tornVars>>

\* a lookup that scans the directory on every call
GetModelPathRescan(name) ==
    /\ last = <<>>
    /\ MODEL_REGISTRY' = IF models_dir THEN ScanResult(MODEL_REGISTRY, disk) ELSE <<>>
    /\ models_dir' = TRUE
    /\ scanned' = disk
    /\ scan_history' = ScanKind(MODEL_REGISTRY, scanned = disk, scan_history)
    /\ last' = Resolve(name, MODEL_REGISTRY', disk)
    /\ UNCHANGED <<disk, genVars, sessVars, tornVars>>

\* get_model_path(name), as show_model and pull_model call it
get_model_path(name) ==
    /\ last = <<>>
    /\ MODEL_REGISTRY' = Refreshed(MODEL_REGISTRY, disk)
    /\ models_dir' = (MODEL_REGISTRY = <<>> \/ models_dir)
    /\ scanned' = IF MODEL_REGISTRY = <<>> THEN disk ELSE scanned
    /\ scan_history' = IF MODEL_REGISTRY = <<>> THEN "first" ELSE scan_history
    /\ last' = Resolve(name, MODEL_REGISTRY', disk)
    /\ UNCHANGED <<disk, genVars, sessVars, tornVars>>

\* the route that asked answers its request with the path, or with a 404
Respond ==
    /\ last # <<>>
    /\ last' = <<>>
    /\ returned' = <<>>
    /\ UNCHANGED <<models_dir, disk, MODEL_REGISTRY, scanned, scan_history,
                   ACTIVE_SESSIONS, genVars,
                   tornVars>>

\* a file appears in MODELS_DIR, anywhere in the enumeration order
DiskAdd(f, at) ==
    /\ last = <<>>
    /\ models_dir
    /\ Len(disk) < MaxFiles
    /\ ~Exists(disk, f)
    /\ disk' = SubSeq(disk, 1, at - 1) \o <<f>> \o SubSeq(disk, at, Len(disk))
    /\ scan_history' = "none"
    /\ UNCHANGED <<models_dir, MODEL_REGISTRY, scanned, last, genVars, sessVars, tornVars>>

\* a file of MODELS_DIR is deleted
DiskRemove(at) ==
    /\ last = <<>>
    /\ at \in 1..Len(disk)
    /\ disk' = SubSeq(disk, 1, at - 1) \o SubSeq(disk, at + 1, Len(disk))
    /\ scan_history' = "none"
    /\ UNCHANGED <<models_dir, MODEL_REGISTRY, scanned, last, genVars, sessVars, tornVars>>

\* the registry of a server whose model directory changes between the
\* requests it serves one after the other: model listings and lookups
NextReg ==
    \/ scan_models
    \/ \E name \in QueryNames : get_model_path(name)
    \/ Respond
    \/ \E f \in FileNames : \E at \in 1..(Len(disk) + 1) : DiskAdd(f, at)
    \/ \E at \in 1..MaxFiles : DiskRemove(at)

SpecReg == InitGen /\ [][NextReg]_vars

----------------------------------------------------------------------------
(* get_or_create_session                                                    *)

\* the model files and the model names of the specifications that follow the
\* session table and the statements of a scan
FewFiles == {<<"m", ".", "g", "g", "u", "f">>, <<"p", "h", "i", "-", "2", ".", "g", "g", "u", "f">>}

FewNames == {<<"m">>, <<"p", "h", "i">>, <<"q">>}

\* return value None of get_or_create_session
NoSession == <<>>

\* lines 331-333, run before the path is looked at
GetOrCreateEager(model_name, started) ==
    /\ last = <<>>
    /\ MODEL_REGISTRY' = Refreshed(MODEL_REGISTRY, disk)
    /\ models_dir' = (MODEL_REGISTRY = <<>> \/ models_dir)
    /\ scanned' = IF MODEL_REGISTRY = <<>> THEN disk ELSE scanned
    /\ scan_history' = IF MODEL_REGISTRY = <<>> THEN "first" ELSE scan_history
    /\ last' = Resolve(model_name, MODEL_REGISTRY', disk)
    /\ started
    /\ spawned' = spawned + 1
    /\ alive' = alive \cup {spawned'}
    /\ ACTIVE_SESSIONS' = (model_name :> [model_path |-> last'.path, process |-> spawned'])
                          @@ ACTIVE_SESSIONS
    /\ returned' = [name |-> model_name, session |-> ACTIVE_SESSIONS'[model_name],
                    raised |-> FALSE]
    /\ UNCHANGED <<disk, loopVars, runVars, readers, life, last_call, cleared, shutVars, moreVars,
                   tornVars>>

\* a table keyed by the resolved path: a name whose path a stored session
\* already has is given that session
GetOrCreateByPath(model_name, started) ==
    /\ last = <<>>
    /\ MODEL_REGISTRY' = Refreshed(MODEL_REGISTRY, disk)
    /\ models_dir' = (MODEL_REGISTRY = <<>> \/ models_dir)
    /\ scanned' = IF MODEL_REGISTRY = <<>> THEN disk ELSE scanned
    /\ scan_history' = IF MODEL_REGISTRY = <<>> THEN "first" ELSE scan_history
    /\ last' = Resolve(model_name, MODEL_REGISTRY', disk)
    /\ LET same == {m \in DOMAIN ACTIVE_SESSIONS :
                       ACTIVE_SESSIONS[m].model_path = last'.path}
       IN  IF last'.path = NotFound
           THEN /\ returned' = [name |-> model_name, session |-> NoSession,
                                raised |-> FALSE]
                /\ UNCHANGED <<ACTIVE_SESSIONS, spawned, alive>>
           ELSE IF same # {}
           THEN /\ ACTIVE_SESSIONS' = (model_name :> ACTIVE_SESSIONS[CHOOSE m \in same : TRUE])
                                      @@ ACTIVE_SESSIONS
                /\ returned' = [name |-> model_name,
                                session |-> ACTIVE_SESSIONS'[model_name],
                                raised |-> FALSE]
                /\ UNCHANGED <<spawned, alive>>
           ELSE IF started
           THEN /\ spawned' = spawned + 1
                /\ alive' = alive \cup {spawned'}
                /\ ACTIVE_SESSIONS' = (model_name :> [model_path |-> last'.path,
                                                      process |-> spawned'])
                                      @@ ACTIVE_SESSIONS
                /\ returned' = [name |-> model_name,
                                session |-> ACTIVE_SESSIONS'[model_name],
                                raised |-> FALSE]
           ELSE /\ returned' = [name |-> model_name, session |-> NoSession,
                                raised |-> TRUE]
                /\ UNCHANGED <<ACTIVE_SESSIONS, spawned, alive>>
    /\ UNCHANGED <<disk, loopVars, runVars, readers, life, last_call, cleared, shutVars, moreVars,
                   tornVars>>

\* lines 324-335: get_or_create_session(model_name), as chat and
\* generate_completion call it; started says whether Popen starts the child
\* (line 107) or raises
get_or_create_session(model_name, started) ==
    /\ last = <<>>
    /\ MODEL_REGISTRY' = Refreshed(MODEL_REGISTRY, disk)
    /\ models_dir' = (MODEL_REGISTRY = <<>> \/ models_dir)
    /\ scanned' = IF MODEL_REGISTRY = <<>> THEN disk ELSE scanned
    /\ scan_history' = IF MODEL_REGISTRY = <<>> THEN "first" ELSE scan_history
    /\ last' = Resolve(model_name, MODEL_REGISTRY', disk)
    /\ IF last'.path = NotFound
       THEN /\ returned' = [name |-> model_name, session |-> NoSession, raised |-> FALSE]
            /\ UNCHANGED <<ACTIVE_SESSIONS, spawned, alive>>
       ELSE IF model_name \in DOMAIN ACTIVE_SESSIONS
       THEN /\ returned' = [name |-> model_name, session |-> ACTIVE_SESSIONS[model_name],
                            raised |-> FALSE]
            /\ UNCHANGED <<ACTIVE_SESSIONS, spawned, alive>>
       ELSE IF started
       THEN /\ spawned' = spawned + 1
            /\ alive' = alive \cup {spawned'}
            /\ ACTIVE_SESSIONS' = (model_name :> [model_path |-> last'.path,
                                                  process |-> spawned'])
                                  @@ ACTIVE_SESSIONS
            /\ returned' = [name |-> model_name, session |-> ACTIVE_SESSIONS'[model_name],
                            raised |-> FALSE]
       ELSE /\ returned' = [name |-> model_name, session |-> NoSession, raised |-> TRUE]
            /\ UNCHANGED <<ACTIVE_SESSIONS, spawned, alive>>
    /\ UNCHANGED <<disk, loopVars, runVars, readers, life, last_call, cleared, shutVars, moreVars,
                   tornVars>>

\* chat and completion requests for a few model names, served one after the
\* other while the model directory changes and is listed
NextSess ==
    \/ scan_models
    \/ \E name \in FewNames, started \in BOOLEAN : get_or_create_session(name, started)
    \/ Respond
    \/ \E f \in FewFiles : \E at \in 1..(Len(disk) + 1) : DiskAdd(f, at)
    \/ \E at \in 1..MaxFiles : DiskRemove(at)

SpecSess == InitGen /\ [][NextSess]_vars

----------------------------------------------------------------------------
(* scan_models statement by statement, beside a reader                      *)

RECURSIVE Assignments(_)
\* lines 200-258: the assignments the loop makes for the files it enumerates
Assignments(files) ==
    IF files = <<>> THEN <<>>
    ELSE FileAssignments(files[1]) \o Assignments(Tail(files))

\* line 194: MODEL_REGISTRY = {}, and line 200: the directory is enumerated
ScanBegin ==
    /\ scan_pc = "idle"
    /\ last = <<>>
    /\ before' = MODEL_REGISTRY
    /\ MODEL_REGISTRY' = <<>>
    /\ todo' = Assignments(Glob(disk))
    /\ scanned' = disk
    /\ scan_history' = ScanKind(MODEL_REGISTRY, scanned = disk, scan_history)
    /\ scan_pc' = "fill"
    /\ models_dir' = TRUE
    /\ UNCHANGED <<disk, last, genVars, sessVars>>

\* one assignment MODEL_REGISTRY[key] = path_str of lines 208-258
ScanPut ==
    /\ scan_pc = "fill"
    /\ todo # <<>>
    /\ MODEL_REGISTRY' = Put(MODEL_REGISTRY, todo[1][1], todo[1][2])
    /\ todo' = Tail(todo)
    /\ UNCHANGED <<models_dir, disk, scanned, last, scan_history, scan_pc, before, genVars,
                   sessVars>>

\* lines 260-262: the loop is over and scan_models returns
ScanEnd ==
    /\ scan_pc = "fill"
    /\ todo = <<>>
    /\ scan_pc' = "idle"
    /\ UNCHANGED <<models_dir, dirVars, todo, before, genVars, sessVars>>

\* a thread that lists the models, so scans, beside a thread that answers
\* lookups: app.run(threaded=True) serves each request on a thread of its own
NextTorn ==
    \/ ScanBegin
    \/ ScanPut
    \/ ScanEnd
    \/ \E name \in FewNames : get_model_path(name)
    \/ Respond
    \/ \E f \in FewFiles : \E at \in 1..(Len(disk) + 1) : DiskAdd(f, at)
    \/ \E at \in 1..MaxFiles : DiskRemove(at)

SpecTorn == InitGen /\ [][NextTorn]_vars

----------------------------------------------------------------------------
(* run_llama_generation, the one-shot runner of ollama-gpu-bridge-v2.py     *)

MaxRunLines == 3    \* lines the one-shot child writes

\* s.startswith(prefix)
StartsWith(s, prefix) == Len(s) >= Len(prefix) /\ MatchAt(s, prefix, 1)

SystemInfoPrefix == <<"s", "y", "s", "t", "e", "m", "_", "i", "n", "f", "o", ":">>
MainPrefix == <<"m", "a", "i", "n", ":">>

\* line 241: the line is a diagnostic banner
IsDiagnostic(line) == StartsWith(line, SystemInfoPrefix) \/ StartsWith(line, MainPrefix)

SysRaw == <<"s", "y", "s", "t", "e", "m", "_", "i", "n", "f", "o", ":", SP, "x", NL>>
MainRaw == <<"m", "a", "i", "n", ":", SP, "y", NL>>
\* bytes of the child that the text decoding of the pipe rejects
BadRaw == <<"\\xff">>

\* what the one-shot child can write to its standard output
RunRawLines == {SysRaw, MainRaw, HiRaw, ThereRaw, BlankRaw, BadRaw}

\* the exceptions of the try block, by what str(e) says: Popen finds no
\* binary, readline() or stderr.read() cannot decode what the child wrote
LaunchError == <<"No such file or directory">>
StdoutError == <<"can't decode byte in stdout">>
StderrError == <<"can't decode byte in stderr">>

\* line 262: f"Error: {str(e)}"
ErrorChunk(e) == <<"E", "r", "r", "o", "r", ":", SP>> \o e

\* a runner whose try block does not cover Popen
RunBeginUncaught(s, launches) ==
    /\ run_pc = "idle"
    /\ run_stream' = s
    /\ IF launches
       THEN /\ child' = "running"
            /\ stdout_open' = TRUE
            /\ run_pc' = "read"
            /\ exc' = exc
       ELSE /\ exc' = LaunchError
            /\ run_pc' = "raised"
            /\ UNCHANGED <<child, stdout_open>>
    /\ UNCHANGED <<pipe, nwritten, returncode, bad_stderr, full_response, yielded,
                   consumed, ended_child, spawned, loopVars, regVars, lifeVars,
                   stderr_pipe>>

\* lines 227-233: Popen starts the child or raises
RunBegin(s, launches) ==
    /\ run_pc = "idle"
    /\ run_stream' = s
    /\ IF launches
       THEN /\ child' = "running"
            /\ stdout_open' = TRUE
            /\ run_pc' = "read"
            /\ exc' = exc
       ELSE /\ exc' = LaunchError
            /\ run_pc' = "except"
            /\ UNCHANGED <<child, stdout_open>>
    /\ UNCHANGED <<pipe, nwritten, returncode, bad_stderr, full_response, yielded,
                   consumed, ended_child, spawned, loopVars, regVars, lifeVars,
                   stderr_pipe>>

\* the child writes a line to its standard output
ChildWrite(raw) ==
    /\ child = "running"
    /\ stdout_open
    /\ nwritten < MaxRunLines
    /\ pipe' = Append(pipe, raw)
    /\ nwritten' = nwritten + 1
    /\ UNCHANGED <<run_pc, run_stream, child, stdout_open, returncode, bad_stderr,
                   full_response, yielded, consumed, ended_child, exc, spawned,
                   loopVars, regVars, lifeVars,
                   stderr_pipe>>

\* the child closes its standard output and goes on running
ChildClose ==
    /\ child = "running"
    /\ stdout_open
    /\ stdout_open' = FALSE
    /\ UNCHANGED <<run_pc, run_stream, child, pipe, nwritten, returncode, bad_stderr,
                   full_response, yielded, consumed, ended_child, exc, spawned,
                   loopVars, regVars, lifeVars,
                   stderr_pipe>>

\* the child exits with a return code, having written text or other bytes to
\* its standard error
ChildExit(code, bad) ==
    /\ child = "running"
    /\ child' = "exited"
    /\ stdout_open' = FALSE
    /\ returncode' = code
    /\ bad_stderr' = bad
    /\ UNCHANGED <<run_pc, run_stream, pipe, nwritten, full_response, yielded,
                   consumed, ended_child, exc, spawned, loopVars, regVars, lifeVars,
                   stderr_pipe>>

\* a loop over readline() that skips no line
RunReadLineUnfiltered ==
    /\ run_pc = "read"
    /\ pipe # <<>>
    /\ pipe' = Tail(pipe)
    /\ IF pipe[1] = BadRaw
       THEN /\ exc' = StdoutError
            /\ run_pc' = "except"
            /\ UNCHANGED <<full_response, yielded, consumed>>
       ELSE LET line == RStrip(pipe[1])
            IN  /\ consumed' = Append(consumed, pipe[1])
                /\ full_response' = Append(full_response, line)
                /\ yielded' = IF run_stream THEN Append(yielded, line \o <<NL>>)
                              ELSE yielded
                /\ UNCHANGED <<run_pc, exc>>
    /\ UNCHANGED <<run_stream, child, stdout_open, nwritten, returncode, bad_stderr,
                   ended_child, spawned, loopVars, regVars, lifeVars,
                   stderr_pipe>>

\* lines 237-245: one turn of the loop over readline()
RunReadLine ==
    /\ run_pc = "read"
    /\ pipe # <<>>
    /\ pipe' = Tail(pipe)
    /\ IF pipe[1] = BadRaw
       THEN /\ exc' = StdoutError
            /\ run_pc' = "except"
            /\ UNCHANGED <<full_response, yielded, consumed>>
       ELSE LET line == RStrip(pipe[1])
            IN  /\ consumed' = Append(consumed, pipe[1])
                /\ full_response' = IF IsDiagnostic(line) THEN full_response
                                    ELSE Append(full_response, line)
                /\ yielded' = IF ~IsDiagnostic(line) /\ run_stream
                              THEN Append(yielded, line \o <<NL>>)
                              ELSE yielded
                /\ UNCHANGED <<run_pc, exc>>
    /\ UNCHANGED <<run_stream, child, stdout_open, nwritten, returncode, bad_stderr,
                   ended_child, spawned, loopVars, regVars, lifeVars,
                   stderr_pipe>>

\* line 237: readline() returns '' at the end of the child's output
RunReadEnd ==
    /\ run_pc = "read"
    /\ pipe = <<>>
    /\ ~stdout_open
    /\ run_pc' = "wait"
    /\ UNCHANGED <<run_stream, child, stdout_open, pipe, nwritten, returncode,
                   bad_stderr, full_response, yielded, consumed, ended_child, exc,
                   spawned, loopVars, regVars, lifeVars,
                   stderr_pipe>>

\* line 248: process.wait() returns once the child has exited
RunWait ==
    /\ run_pc = "wait"
    /\ child = "exited"
    /\ run_pc' = "join"
    /\ UNCHANGED <<run_stream, child, stdout_open, pipe, nwritten, returncode,
                   bad_stderr, full_response, yielded, consumed, ended_child, exc,
                   spawned, loopVars, regVars, lifeVars,
                   stderr_pipe>>

\* lines 251-252: the whole response as one chunk
RunJoin ==
    /\ run_pc = "join"
    /\ yielded' = IF run_stream THEN yielded ELSE Append(yielded, Join(full_response))
    /\ run_pc' = "check"
    /\ UNCHANGED <<run_stream, child, stdout_open, pipe, nwritten, returncode,
                   bad_stderr, full_response, consumed, ended_child, exc, spawned,
                   loopVars, regVars, lifeVars,
                   stderr_pipe>>

\* lines 255-257: the standard error of a child that failed is read and logged
RunCheck ==
    /\ run_pc = "check"
    /\ IF returncode # 0 /\ bad_stderr
       THEN exc' = StderrError /\ run_pc' = "except" /\ ended_child' = ended_child
       ELSE exc' = exc /\ run_pc' = "done" /\ ended_child' = child
    /\ stderr_pipe' = IF returncode # 0 THEN 0 ELSE stderr_pipe
    /\ UNCHANGED <<run_stream, child, stdout_open, pipe, nwritten, returncode,
                   bad_stderr, full_response, yielded, consumed, spawned, loopVars,
                   regVars, lifeVars>>

\* lines 259-262: the error is logged and yielded as a chunk
RunExcept ==
    /\ run_pc = "except"
    /\ yielded' = Append(yielded, ErrorChunk(exc))
    /\ run_pc' = "done"
    /\ ended_child' = child
    /\ UNCHANGED <<run_stream, child, stdout_open, pipe, nwritten, returncode,
                   bad_stderr, full_response, consumed, exc, spawned, loopVars,
                   regVars, lifeVars,
                   stderr_pipe>>

\* one run of the runner, consumed to its end, beside its child
NextRun ==
    \/ \E s \in BOOLEAN, launches \in BOOLEAN : RunBegin(s, launches)
    \/ \E raw \in RunRawLines : ChildWrite(raw)
    \/ ChildClose
    \/ \E code \in {0, 1}, bad \in BOOLEAN : ChildExit(code, bad)
    \/ RunReadLine
    \/ RunReadEnd
    \/ RunWait
    \/ RunJoin
    \/ RunCheck
    \/ RunExcept

SpecRun == InitGen /\ [][NextRun]_vars

----------------------------------------------------------------------------
(* The completion rules of generate                                         *)

\* the response of caller t has ended: the poll loop was left
Ended(t) == pc[t] \in {"finish", "done"}

\* the dequeued lines that were not discarded as an echo of the prompt
Kept(t) == SelectSeq(dequeued[t], LAMBDA l : ~IsEcho(l, prompt[t]))

\* the lines seq[i], ..., seq[i+n-1] exist and are all blank
BlankRun(seq, i, n) == i + n - 1 <= Len(seq) /\ \A k \in i..(i + n - 1) : seq[k] = Blank

\* C1 as stated: in a persistent-session generate call the response ends as
\* soon as two consecutive blank lines have been dequeued; for the queued
\* output Hi, blank, blank, there the response is exactly [Hi], and the later
\* line "there" is neither appended nor yielded.
C1_TwoBlankLinesEnd ==
    \A t \in Callers :
        /\ \A i \in 1..Len(Kept(t)) :
               BlankRun(Kept(t), i, 2) => (i + 1 = Len(Kept(t)) /\ Ended(t))
        /\ (prompt[t] = Q /\ Len(dequeued[t]) >= 3
                /\ SubSeq(dequeued[t], 1, 3) = <<Hi, Blank, Blank>>)
           => (response_lines[t] = <<Hi>> /\ Len(dequeued[t]) = 3)

\* C1 as amended: the response ends as soon as three consecutive blank lines
\* have been dequeued (lines discarded as an echo of the prompt do not count,
\* which with a blank prompt is every blank line), and the blank-line rule
\* ends it in no other case; two blank lines do not end it: for the queued
\* output Hi, blank, blank, there the response is [Hi, there], and in
\* streaming mode "there" is yielded.
C1_ThreeBlankLinesEnd ==
    \A t \in Callers :
        /\ \A i \in 1..Len(Kept(t)) :
               BlankRun(Kept(t), i, 3) =>
                   (i + 2 = Len(Kept(t)) /\ Ended(t) /\ endedBy[t] = "blank")
        /\ endedBy[t] = "blank" =>
               (Len(Kept(t)) >= 3 /\ BlankRun(Kept(t), Len(Kept(t)) - 2, 3))
        /\ (prompt[t] = Q /\ dequeued[t] = <<Hi, Blank, Blank, There>>)
           => /\ response_lines[t] = <<Hi, There>>
              /\ stream[t] => chunks[t] = <<Hi \o <<NL>>, There \o <<NL>>>>

\* a call that dequeued Hi and three blank lines, and ended with the response [Hi]
C1_Witness ==
    /\ prompt[1] = Q
    /\ dequeued[1] = <<Hi, Blank, Blank, Blank>>
    /\ endedBy[1] = "blank"
    /\ pc[1] = "done"
    /\ response_lines[1] = <<Hi>>

\* C2 as stated: every generate call ends its response no later than the
\* overall budget (30 seconds after the prompt was written, give or take one
\* poll), whatever the child writes: steady output, only blank lines, only
\* echo lines, or nothing at all.
C2_EndsWithinBudget ==
    \A t \in Callers :
        pc[t] = "poll" => now - start_time[t] <= Budget + PollTimeout

\* C3 as stated: the idle rule ends a response only when at least one line
\* has been collected and the queue has then yielded nothing for more than
\* about 2 seconds, measured from the last collected line; a shorter gap
\* between two output lines never ends the response. "About" is read in the
\* claim's favour: a silence of half the limit since the last collected line
\* is already accepted.
C3_IdleMeasuredFromLastLine ==
    \A t \in Callers :
        endedBy[t] = "idle" =>
            (response_lines[t] # <<>> /\ 2 * (now - last_line_time[t]) >= IdleLimit)

----------------------------------------------------------------------------
(* Two callers on one session                                               *)

\* caller t is inside generate, between its first statement and its return
InCall(t) == pc[t] \in {"drain", "drain_get", "write", "poll", "finish"}

\* the line the queue holds for the answer to prompt p
AnswerLine(p) == RStrip(AnswerRaw(p \o <<NL>>))

\* seq has the element x
Has(seq, x) == \E i \in 1..Len(seq) : seq[i] = x

\* C4: two generate calls on the same session are not mutually excluded:
\* whatever the other caller is doing inside generate, a caller can begin, can
\* write its prompt, and can take the head of the queue when both are polling.
C4_NoMutualExclusion ==
    \A t \in Callers : \A u \in Callers \ {t} :
        InCall(u) =>
            /\ pc[t] = "idle" => ENABLED GenBegin(t, Q, TRUE)
            /\ pc[t] = "drain" => ENABLED GenDrainCheck(t)
            /\ pc[t] = "write" => ENABLED GenWrite(t)
            /\ (pc[t] = "poll" /\ pc[u] = "poll" /\ output_queue # <<>>) =>
                   (ENABLED GenPollLine(t) /\ ENABLED GenPollLine(u))

\* both prompts are written, neither response is finished, and the answer to
\* caller 1's prompt sits in caller 2's response
C4_Witness ==
    /\ Len(stdin) = 2
    /\ prompt[1] # prompt[2]
    /\ pc[1] = "poll"
    /\ pc[2] = "poll"
    /\ Has(response_lines[2], AnswerLine(prompt[1]))

----------------------------------------------------------------------------
(* Claims about the registry                                                *)

\* the file the lookup being answered names is a model file of MODELS_DIR
AsksForFile == last # <<>> /\ EndsWith(last.name, GGUF)
                           /\ \E i \in 1..Len(disk) : disk[i] = last.name

\* C5, as stated: with the registry scanned from the directory as it is, the
\* lookup of a model file's exact name returns the path of that very file
C5_RoundTrip ==
    (AsksForFile /\ scanned = disk) => last.path = PathStr(last.name)

\* a is a substring of b
IsSubstring(a, b) ==
    \E i \in 0..(Len(b) - Len(a)) : SubSeq(b, i + 1, i + Len(a)) = a

\* the pairs <<from, to>> of the four transforms of rule 3
RefTransforms == <<<<SP, "-">>, <<SP, "_">>, <<"-", "_">>, <<"_", "-">>>>

\* the aliases rules 1 to 4 try for a name, in the order they try them
RefCandidates(name) ==
    LET colons == {i \in 1..Len(name) : name[i] = ":"}
        base == SubSeq(name, 1, Min(colons) - 1)
    IN  <<name, Lower(name)>>
        \o [k \in 1..(2 * Len(RefTransforms)) |->
              LET tr == RefTransforms[(k + 1) \div 2]
                  variant == Replace(name, tr[1], tr[2])
              IN  IF k % 2 = 1 THEN variant ELSE Lower(variant)]
        \o (IF colons = {} THEN <<>> ELSE <<base, base \o LATEST>>)

\* the name is that of a file of MODELS_DIR, whatever file it is
ExistsOnDisk(files, name) == \E i \in 1..Len(files) : files[i] = name

\* the name exists in MODELS_DIR and carries the extension
IsModelFile(files, name) == ExistsOnDisk(files, name) /\ Suffix(name) = GGUF

\* a is a substring of b when the case of letters is ignored
IsSubstringAnyCase(a, b) == IsSubstring(Lower(a), Lower(b))

\* the reference lookup: the first candidate alias the registry knows, else
\* the first alias in iteration order that Sub relates to the name in either
\* direction, else the name as a file that Named accepts, else the name with
\* the extension added as a file of the directory, else not found; Sub ignores
\* the case of letters when anycase says so, and Named wants the name to carry
\* the extension when needext says so
RefResolve(name, reg, files, anycase, needext) ==
    LET Sub(a, b) == IF anycase THEN IsSubstringAnyCase(a, b) ELSE IsSubstring(a, b)
        Named(fs, n) == IF needext THEN IsModelFile(fs, n) ELSE ExistsOnDisk(fs, n)
        cands == RefCandidates(name)
        known == {k \in 1..Len(cands) : \E i \in 1..Len(reg) : reg[i][1] = cands[k]}
        partial == {i \in 1..Len(reg) : Sub(name, reg[i][1]) \/ Sub(reg[i][1], name)}
        named == name \o GGUF
    IN  IF known # {}
        THEN reg[CHOOSE i \in 1..Len(reg) : reg[i][1] = cands[Min(known)]][2]
        ELSE IF partial # {} THEN reg[Min(partial)][2]
        ELSE IF Named(files, name) THEN PathStr(name)
        ELSE IF \E i \in 1..Len(files) : files[i] = named THEN PathStr(named)
        ELSE NotFound

\* C6, as stated: every lookup returns what the reference returns whose rule 5
\* is the substring match and whose rule 6 takes the name as it exists on disk
C6_AsStated ==
    last # <<>> =>
        last.path = RefResolve(last.name, MODEL_REGISTRY, disk, FALSE, FALSE)

\* C6, amended: every lookup returns what the reference returns whose rule 5
\* ignores the case of letters and whose rule 6 takes the bare name only when
\* it carries the extension; not found exactly when all six rules fail
C6_MatchesReference ==
    last # <<>> =>
        last.path = RefResolve(last.name, MODEL_REGISTRY, disk, TRUE, TRUE)

\* a lookup answered by rule 5 for a name that is a substring of an alias only
\* when case is ignored
C6_Witness ==
    last # <<>> /\ last.name = <<"H", "I">> /\ last.rule = 5 /\ last.path # NotFound

\* C9: a scan_models() call leaves the mapping that a scan from no mapping
\* makes of the directory, whatever mapping it found; over the directory the
\* mapping was scanned from it leaves the mapping as it was
C9_ScanIdempotent ==
    [][scan_models => /\ MODEL_REGISTRY' = ScanResult(<<>>, disk)
                      /\ (scanned = disk => MODEL_REGISTRY' = MODEL_REGISTRY)]_vars

\* a second scan of an unchanged, non-empty directory, whose first scan had
\* replaced the mapping of other contents
C9_Witness == scan_history = "again_replaced" /\ MODEL_REGISTRY # <<>>

\* the orders in which n files can be enumerated
Orders(n) == {p \in [1..n -> 1..n] : \A i, j \in 1..n : p[i] = p[j] => i = j}

Reorder(files, p) == [i \in 1..Len(files) |-> files[p[i]]]

\* C10, as stated: a lookup answered by rule 1, 2, 3, 4 or 6 returns the same
\* path for every order in which the scan could have enumerated the directory
C10_OrderIndependent ==
    (last # <<>> /\ last.rule \in {1, 2, 3, 4, 6}) =>
        \A p \in Orders(Len(scanned)) :
            Resolve(last.name, ScanResult(<<>>, Reorder(scanned, p)), disk).path = last.path

\* C7: a get_or_create_session call whose lookup finds no path returns None,
\* raises nothing, leaves ACTIVE_SESSIONS as it was and starts no process
C7_NotFoundNoSession ==
    [][\A name \in FewNames, started \in BOOLEAN :
          (get_or_create_session(name, started) /\ last'.path = NotFound) =>
              /\ returned'.session = NoSession
              /\ ~returned'.raised
              /\ ACTIVE_SESSIONS' = ACTIVE_SESSIONS
              /\ spawned' = spawned]_vars

\* a call that finds no path for a name a session was created for earlier
C7_Witness ==
    /\ returned # <<>>
    /\ last.path = NotFound
    /\ returned.name \in DOMAIN ACTIVE_SESSIONS

\* C8, as stated: a name that the mapping a scan replaces and the mapping the
\* scan builds both resolve is resolved, by a lookup made during the scan, to
\* one of those two paths
C8_AtomicScan ==
    (scan_pc = "fill" /\ before # <<>> /\ last # <<>>) =>
        LET old == Resolve(last.name, before, disk).path
            new == Resolve(last.name, ScanResult(<<>>, scanned), disk).path
        IN  (old # NotFound /\ new # NotFound) => last.path \in {old, new}

----------------------------------------------------------------------------
(* Claims about the one-shot runner                                         *)

\* a raw line without its line break
StripNL(raw) ==
    IF raw # <<>> /\ raw[Len(raw)] = NL THEN SubSeq(raw, 1, Len(raw) - 1) ELSE raw

\* the raw lines that carry no diagnostic prefix
Visible(raws) ==
    SelectSeq(raws, LAMBDA r : ~(StartsWith(r, SystemInfoPrefix) \/ StartsWith(r, MainPrefix)))

\* one chunk per visible line: the line as the child wrote it, then a line break
LineChunks(raws) == [i \in 1..Len(Visible(raws)) |-> StripNL(Visible(raws)[i]) \o <<NL>>]

\* one chunk per visible line: the line without the white space at its end,
\* then a line break
StrippedChunks(raws) == [i \in 1..Len(Visible(raws)) |-> RStrip(Visible(raws)[i]) \o <<NL>>]

\* the visible lines without the white space at their ends
StrippedLines(raws) == [i \in 1..Len(Visible(raws)) |-> RStrip(Visible(raws)[i])]

\* the error chunk, once the except block has yielded it
ErrorTail == IF run_pc = "done" /\ exc # NoError THEN <<ErrorChunk(exc)>> ELSE <<>>

\* C11, as stated: in streaming mode the chunks yielded so far are the visible
\* lines read so far, each followed by a line break, and nothing else
C11_LinePlusBreak ==
    (run_stream /\ child # "none") => yielded = LineChunks(consumed)

\* C11, amended: in streaming mode the chunks yielded so far are the visible
\* lines read so far, each without the white space at its end and followed by
\* a line break, in the order read; one error chunk follows them when an
\* exception ended the run
C11_StreamChunks ==
    (run_stream /\ child # "none") => yielded = StrippedChunks(consumed) \o ErrorTail

\* a streaming run over a diagnostic line and two lines of text, ended
C11_Witness ==
    /\ run_pc = "done" /\ run_stream /\ exc = NoError
    /\ consumed = <<SysRaw, HiRaw, ThereRaw>>
    /\ yielded = <<Hi \o <<NL>>, There \o <<NL>>>>

\* C12, as stated: in non-streaming mode a run that launched yields nothing
\* before its child has exited, and then the one chunk that joins the visible
\* lines by line breaks
C12_OneChunkAfterExit ==
    (~run_stream /\ child # "none") =>
        /\ yielded # <<>> =>
               child = "exited" /\ yielded = <<Join(StrippedLines(consumed))>>
        /\ run_pc = "done" => yielded # <<>>

\* C13: a run whose launch fails yields the one error chunk and ends, in
\* either mode, and the exception goes no further
C13_LaunchFailureChunk ==
    (child = "none" /\ run_pc \notin {"idle", "except"}) =>
        run_pc = "done" /\ yielded = <<ErrorChunk(LaunchError)>>

\* a non-streaming run that ended after its launch failed
C13_Witness == run_pc = "done" /\ child = "none" /\ ~run_stream /\ Len(yielded) = 1

\* C14, as stated: when the generator ends, the child it launched has exited
C14_EndsAfterExit ==
    (run_pc = "done" /\ child # "none") => ended_child = "exited"

\* C15, as stated: a run whose output was read to its end, and whose child
\* exited with a non-zero code, has yielded what the same output yields
\* with exit code 0, and no error chunk
C15_ExitCodeIgnored ==
    (run_pc = "done" /\ exc # StdoutError /\ child = "exited" /\ returncode # 0) =>
        yielded = IF run_stream THEN StrippedChunks(consumed)
                  ELSE <<Join(StrippedLines(consumed))>>


----------------------------------------------------------------------------
(* LlamaCppSession: the life of one session under start, generate and stop  *)

LifeMaxLines == 3   \* lines the children write in a run of the life-cycle model
LifeHorizon == 2    \* clock cap of the polls that find nothing in that model

\* what the caller threads hold, which start and stop leave alone
callerVars == <<pc, prompt, stream, response_lines, empty_line_count, start_time,
                chunks, dequeued, drained, endedBy, last_line_time>>

\* no generate call is under way
Quiet == \A t \in Callers : pc[t] \in {"idle", "done", "raised"}

\* lines 84-119: start() called on the session
start ==
    /\ Quiet
    /\ Start
    /\ last_call' = IF process = NoProcess THEN "start" ELSE "start_noop"
    /\ UNCHANGED <<now, stdin, output_queue, nread, callerVars, cleared, shutVars, moreVars,
                   regVars, runVars>>

\* a stop() without the test of line 186, which fails on a session that has
\* no process
StopUnguarded ==
    /\ Quiet
    /\ IF process # NoProcess
       THEN /\ alive' = alive \ {process}
            /\ cleared' = cleared \cup {process}
            /\ process' = NoProcess
            /\ life' = "STOPPED"
            /\ last_call' = "stop"
       ELSE /\ life' = "ERROR"
            /\ last_call' = "stop_noop"
            /\ UNCHANGED <<alive, cleared, process>>
    /\ UNCHANGED <<now, spawned, stdin, output_queue, nread, callerVars, readers,
                   shutVars, moreVars, regVars, runVars>>

\* lines 184-189: stop(): terminate(), wait(), self.process = None, and
\* nothing at all on a session that has no process
stop ==
    /\ Quiet
    /\ IF process # NoProcess
       THEN /\ alive' = alive \ {process}
            /\ cleared' = cleared \cup {process}
            /\ process' = NoProcess
            /\ life' = "STOPPED"
            /\ last_call' = "stop"
       ELSE /\ last_call' = "stop_noop"
            /\ UNCHANGED <<alive, cleared, process, life>>
    /\ UNCHANGED <<now, spawned, stdin, output_queue, nread, callerVars, readers,
                   shutVars, moreVars, regVars, runVars>>

\* line 123: the reader thread tests self.process and self.process.poll()
\* on whatever self.process is at that moment
ReaderCheck(r) ==
    /\ readers[r].pc = "check"
    /\ readers' = [readers EXCEPT ![r].pc =
                      IF process # NoProcess /\ process \in alive THEN "call" ELSE "dead"]
    /\ UNCHANGED <<now, process, spawned, stdin, output_queue, nread, callerVars, alive,
                   life, last_call, cleared, shutVars, moreVars, regVars, runVars>>

\* line 125: self.process.stdout.readline is looked up and called; on a
\* session stopped since line 123 the lookup raises, and lines 128-130 break
ReaderCall(r) ==
    /\ readers[r].pc = "call"
    /\ readers' = [readers EXCEPT ![r] =
                      IF process # NoProcess THEN [pc |-> "read", src |-> process]
                      ELSE [pc |-> "dead", src |-> NoProcess]]
    /\ UNCHANGED <<now, process, spawned, stdin, output_queue, nread, callerVars, alive,
                   life, last_call, cleared, shutVars, moreVars, regVars, runVars>>

\* lines 125-127: readline() returns a line of the child it reads, which is
\* put on the queue without its trailing white space
ReaderLine(r, raw, cap) ==
    /\ readers[r].pc = "read"
    /\ readers[r].src \in alive
    /\ nread < cap
    /\ output_queue' = Append(output_queue, RStrip(raw))
    /\ nread' = nread + 1
    /\ readers' = [readers EXCEPT ![r].pc = "check"]
    /\ UNCHANGED <<now, process, spawned, stdin, callerVars, alive, life, last_call,
                   cleared, shutVars, moreVars, regVars, runVars>>

\* lines 125-126: the child it reads has been terminated: readline() returns
\* '' and nothing is put
ReaderEnd(r) ==
    /\ readers[r].pc = "read"
    /\ readers[r].src \notin alive
    /\ readers' = [readers EXCEPT ![r].pc = "check"]
    /\ UNCHANGED <<now, process, spawned, stdin, output_queue, nread, callerVars, alive,
                   life, last_call, cleared, shutVars, moreVars, regVars, runVars>>

\* the calls the server makes on one session, one after the other, while the
\* session's reader threads run
NextLife ==
    \/ start
    \/ stop
    \/ \E r \in ReaderIds : ReaderCheck(r)
    \/ \E r \in ReaderIds : ReaderCall(r)
    \/ \E r \in ReaderIds : ReaderLine(r, BlankRaw, LifeMaxLines)
    \/ \E r \in ReaderIds : ReaderEnd(r)
    \/ \E t \in Callers : Quiet /\ GenBegin(t, Q, TRUE)
    \/ \E t \in Callers : GenDrainCheck(t)
    \/ \E t \in Callers : GenDrainGet(t)
    \/ \E t \in Callers : GenWrite(t)
    \/ \E t \in Callers : GenPollLine(t)
    \/ \E t \in Callers : GenPollEmpty(t, LifeHorizon)
    \/ \E t \in Callers : GenFinish(t)

SpecLife == InitLife /\ [][NextLife]_vars

\* the moves of the state machine: UNSTARTED to RUNNING, RUNNING to STOPPED,
\* and staying
LifeMoves == {<<"UNSTARTED", "UNSTARTED">>, <<"UNSTARTED", "RUNNING">>,
              <<"RUNNING", "RUNNING">>, <<"RUNNING", "STOPPED">>,
              <<"STOPPED", "STOPPED">>}

\* C16: a session's state changes only along UNSTARTED -> RUNNING -> STOPPED,
\* and no child is spawned for a session that is STOPPED
C16_LifeCycle ==
    [][/\ <<life, life'>> \in LifeMoves
       /\ life = "STOPPED" => spawned' = spawned]_vars

\* a step that is a call of stop()
StopStep == last_call' # last_call /\ last_call' \in {"stop", "stop_noop"}

\* C17: stop() on a running session terminates the child and clears the
\* handle; on a session without a process it changes nothing
C17_StopIdempotent ==
    [][StopStep =>
         IF process # NoProcess
         THEN /\ process' = NoProcess
              /\ process \notin alive'
              /\ process \in cleared'
              /\ last_call' = "stop"
         ELSE /\ last_call' = "stop_noop"
              /\ UNCHANGED <<now, process, spawned, stdin, output_queue, nread,
                             callerVars, alive, readers, life, cleared, shutVars, moreVars,
                             regVars, runVars>>]_vars

\* stop() has been called on a session that stop() had already stopped
C17_Witness == last_call = "stop_noop" /\ life = "STOPPED"

\* the reader threads that are in readline() on a child that runs
Reading == {r \in ReaderIds : readers[r].pc = "read" /\ readers[r].src \in alive}

\* C20: at no moment do two reader threads of a session read its child and
\* put lines on its queue
C20_OneReader == Cardinality(Reading) <= 1


----------------------------------------------------------------------------
(* get_or_create_session: the key of the session table                      *)

\* a step that is a call of get_or_create_session
GetOrCreateStep == returned = <<>> /\ returned' # <<>>

\* C18: a name that resolves and has a session is given that session and no
\* child is spawned; a name that resolves and has none is given a new
\* session with a child of its own, whatever paths the stored sessions have
C18_KeyedByName ==
    [][GetOrCreateStep =>
         LET n == returned'.name
         IN  /\ (last'.path # NotFound /\ n \in DOMAIN ACTIVE_SESSIONS) =>
                   /\ returned'.session = ACTIVE_SESSIONS[n]
                   /\ spawned' = spawned
                   /\ ACTIVE_SESSIONS' = ACTIVE_SESSIONS
             /\ (n \notin DOMAIN ACTIVE_SESSIONS /\ returned'.session # NoSession) =>
                   /\ spawned' = spawned + 1
                   /\ returned'.session.process = spawned'
                   /\ returned'.session.process \in alive'
                   /\ \A m \in DOMAIN ACTIVE_SESSIONS :
                         /\ ACTIVE_SESSIONS[m].process # returned'.session.process
                         /\ ACTIVE_SESSIONS'[m] = ACTIVE_SESSIONS[m]
                   /\ DOMAIN ACTIVE_SESSIONS' = DOMAIN ACTIVE_SESSIONS \cup {n}
                   /\ ACTIVE_SESSIONS'[n] = returned'.session]_vars

\* two names that resolve to one path have two sessions with two children,
\* and a call with one of them has just been given its stored session
C18_Witness ==
    /\ \E m, n \in DOMAIN ACTIVE_SESSIONS :
          /\ m # n
          /\ ACTIVE_SESSIONS[m].model_path = ACTIVE_SESSIONS[n].model_path
          /\ ACTIVE_SESSIONS[m].process # ACTIVE_SESSIONS[n].process
          /\ {ACTIVE_SESSIONS[m].process, ACTIVE_SESSIONS[n].process} \subseteq alive
          /\ returned # <<>>
          /\ returned.name = m
          /\ returned.session = ACTIVE_SESSIONS[m]
          /\ returned.session.process < spawned


----------------------------------------------------------------------------
(* cleanup: the signal handler and the exit hook, beside the request threads *)

MaxCleanups == 2    \* calls of cleanup: the signal handler, then the exit hook

\* lines 650-653: cleanup is called and the iterator over the table's values
\* is made
CleanupBegin ==
    /\ cleanup_pc \in {"idle", "returned"}
    /\ cleanup_calls < MaxCleanups
    /\ cleanup_calls' = cleanup_calls + 1
    /\ cleanup_pc' = "loop"
    /\ cleanup_left' = DOMAIN ACTIVE_SESSIONS
    /\ cleanup_size' = Cardinality(DOMAIN ACTIVE_SESSIONS)
    /\ UNCHANGED <<dropped, spawned, loopVars, runVars, moreVars, alive, readers, life, last_call,
                   cleared, regVars>>

\* lines 653-654: one turn of the loop: the iterator raises RuntimeError when
\* the table has changed size since it was made, ends when it has given every
\* value, and else gives a session, which is stopped (lines 184-189)
CleanupNext ==
    /\ cleanup_pc = "loop"
    /\ IF Cardinality(DOMAIN ACTIVE_SESSIONS) # cleanup_size
       THEN /\ cleanup_pc' = "raised"
            /\ UNCHANGED <<cleanup_left, ACTIVE_SESSIONS, alive, cleared>>
       ELSE IF cleanup_left = {}
       THEN /\ cleanup_pc' = "clear"
            /\ UNCHANGED <<cleanup_left, ACTIVE_SESSIONS, alive, cleared>>
       ELSE \E n \in cleanup_left :
               LET pid == ACTIVE_SESSIONS[n].process
               IN  /\ cleanup_left' = cleanup_left \ {n}
                   /\ ACTIVE_SESSIONS' = [ACTIVE_SESSIONS EXCEPT ![n].process = NoProcess]
                   /\ alive' = alive \ {pid}
                   /\ cleared' = IF pid = NoProcess THEN cleared ELSE cleared \cup {pid}
                   /\ UNCHANGED cleanup_pc
    /\ UNCHANGED <<cleanup_size, cleanup_calls, dropped, spawned, loopVars, runVars, moreVars,
                   readers, life, last_call, dirVars, returned, tornVars,
                   models_dir>>

\* line 655: ACTIVE_SESSIONS.clear(), and cleanup returns
CleanupClear ==
    /\ cleanup_pc = "clear"
    /\ dropped' = dropped \cup ({ACTIVE_SESSIONS[n].process : n \in DOMAIN ACTIVE_SESSIONS}
                                \ {NoProcess})
    /\ ACTIVE_SESSIONS' = <<>>
    /\ cleanup_pc' = "returned"
    /\ UNCHANGED <<cleanup_left, cleanup_size, cleanup_calls, spawned, loopVars, runVars, moreVars,
                   alive, readers, life, last_call, cleared, dirVars, returned, tornVars,
                   models_dir>>

\* requests for a few model names served by the request threads of the
\* threaded server (line 696), while the main thread runs cleanup (lines
\* 677-680)
NextShut ==
    \/ \E name \in FewNames, started \in BOOLEAN : get_or_create_session(name, started)
    \/ Respond
    \/ \E f \in FewFiles : \E at \in 1..(Len(disk) + 1) : DiskAdd(f, at)
    \/ CleanupBegin
    \/ CleanupNext
    \/ CleanupClear

SpecShut == InitGen /\ [][NextShut]_vars

\* C19: when cleanup has returned, no session was removed from the table
\* with its handle set and its child running
C19_CleanupStopsAll == cleanup_pc = "returned" => dropped = {}


----------------------------------------------------------------------------
(* one session whose child writes lines to a pipe and may exit on its own   *)

PipeMaxLines == 4   \* lines the child writes in a run of the pipe model
PipeHorizon == 2    \* clock cap of the polls that find nothing in that model

Digits == <<"0", "1", "2", "3", "4", "5", "6", "7", "8", "9">>

\* a line of output that shows how many prompts the child had been sent when
\* it wrote the line
EpochRaw(n) == <<"A", Digits[n + 1], NL>>

\* the child writes a line to its standard output: a blank one, or one that
\* shows the number of prompts written so far
ChildEmit(blank, cap) ==
    /\ process \in alive
    /\ Len(emitted) < cap
    /\ emitted' = Append(emitted, IF blank THEN BlankRaw ELSE EpochRaw(Len(stdin)))
    /\ UNCHANGED <<records, goc, spawned, loopVars, runVars, alive, readers, life,
                   last_call, cleared, shutVars, regVars>>

\* the child exits on its own; the session keeps its handle (only stop()
\* clears it, line 189)
ChildDies ==
    /\ process \in alive
    /\ alive' = alive \ {process}
    /\ UNCHANGED <<moreVars, spawned, loopVars, runVars, readers, life, last_call,
                   cleared, shutVars, regVars>>

\* lines 125-127: readline() returns the next line of the pipe, written by a
\* child that runs or has exited, and the line is put on the queue without
\* its trailing white space
PipeRead(r) ==
    /\ readers[r].pc = "read"
    /\ nread < Len(emitted)
    /\ output_queue' = Append(output_queue, RStrip(emitted[nread + 1]))
    /\ nread' = nread + 1
    /\ readers' = [readers EXCEPT ![r].pc = "check"]
    /\ UNCHANGED <<now, process, spawned, stdin, callerVars, alive, life, last_call,
                   cleared, shutVars, moreVars, regVars, runVars>>

\* lines 125-126: the pipe is empty and its writer has exited: readline()
\* returns '' and nothing is put
PipeEnd(r) ==
    /\ readers[r].pc = "read"
    /\ nread = Len(emitted)
    /\ readers[r].src \notin alive
    /\ readers' = [readers EXCEPT ![r].pc = "check"]
    /\ UNCHANGED <<now, process, spawned, stdin, output_queue, nread, callerVars, alive,
                   life, last_call, cleared, shutVars, moreVars, regVars, runVars>>

\* the record of a streaming response that carries a chunk
ChunkRecord(chunk) == [content |-> chunk, done |-> FALSE]

\* the record that ends a streaming response
DoneRecord == [done |-> TRUE]

\* the record of the except block: it has no field "done"
ErrorRecord == [error |-> "error"]

\* lines 476-506 (chat) and 549-574 (generate_completion): the generator
\* behind a streaming response, run to its end over a call of
\* session.generate(prompt, stream=True) that has ended or raised
chat_generate(t) ==
    /\ pc[t] \in {"done", "raised"}
    /\ stream[t]
    /\ records[t] = <<>>
    /\ records' = [records EXCEPT ![t] =
                      [i \in 1..Len(chunks[t]) |-> ChunkRecord(chunks[t][i])]
                      \o <<IF pc[t] = "done" THEN DoneRecord ELSE ErrorRecord>>]
    /\ UNCHANGED <<emitted, goc, spawned, loopVars, runVars, alive, readers, life,
                   last_call, cleared, shutVars, regVars>>

\* two requests served one after the other by one session, whose child
\* writes output when it likes and may exit
NextPipe ==
    \/ \E blank \in BOOLEAN : ChildEmit(blank, PipeMaxLines)
    \/ ChildDies
    \/ \E r \in ReaderIds : ReaderCheck(r)
    \/ \E r \in ReaderIds : ReaderCall(r)
    \/ \E r \in ReaderIds : PipeRead(r)
    \/ \E r \in ReaderIds : PipeEnd(r)
    \/ \E t \in Callers, s \in BOOLEAN : Quiet /\ GenBegin(t, ConcPrompt(t), s)
    \/ \E t \in Callers : GenDrainCheck(t)
    \/ \E t \in Callers : GenDrainGet(t)
    \/ \E t \in Callers : GenWrite(t)
    \/ \E t \in Callers : GenPollLine(t)
    \/ \E t \in Callers : GenPollEmpty(t, PipeHorizon)
    \/ \E t \in Callers : GenFinish(t)
    \/ \E t \in Callers : chat_generate(t)

SpecPipe == InitGen /\ [][NextPipe]_vars

\* the reader threads that have left their loop
ReadersEnded == {r \in ReaderIds : readers[r].pc = "dead"}

\* C21: when the reader thread has ended, it has read every line the child
\* wrote before it exited
C21_NoLineLost == \A r \in ReadersEnded : nread = Len(emitted)


\* C23: a generate call on a session whose child has exited does not raise
C23_NoRaise == \A t \in Callers : pc[t] # "raised"

\* the record says that the response is complete
IsDone(rec) == "done" \in DOMAIN rec /\ rec.done

\* C26: a streaming response that has been sent ends with a record with
\* done=true, and no record before it has done=true
C26_EndsWithDone ==
    \A t \in Callers :
        records[t] # <<>> =>
            /\ IsDone(records[t][Len(records[t])])
            /\ \A i \in 1..(Len(records[t]) - 1) : ~IsDone(records[t][i])

\* which line of the child's standard input the prompt of caller t is
PromptIndex(t) == CHOOSE k \in 1..Len(stdin) : stdin[k] = prompt[t] \o <<NL>>

\* the lines the child wrote after n prompts or more had been written to it
WrittenSince(n) == {RStrip(EpochRaw(k)) : k \in n..Len(stdin)}

\* C30: the response of a call holds only lines that the child wrote after
\* the prompt of that call was written
C30_OnlyOwnLines ==
    \A t \in Callers :
        pc[t] \in {"poll", "finish", "done"} =>
            \A i \in 1..Len(response_lines[t]) :
                response_lines[t][i] \in WrittenSince(PromptIndex(t))


----------------------------------------------------------------------------
(* get_or_create_session when the child of a stored session has exited     *)

\* the child of the session stored under name n exits on its own; the
\* session stays in the table with its handle set
SessionDies(n) ==
    /\ n \in DOMAIN ACTIVE_SESSIONS
    /\ ACTIVE_SESSIONS[n].process \in alive
    /\ alive' = alive \ {ACTIVE_SESSIONS[n].process}
    /\ UNCHANGED <<moreVars, spawned, loopVars, runVars, readers, life, last_call,
                   cleared, shutVars, regVars>>

\* requests for a few model names, served one after the other, while the
\* children of the stored sessions may exit
NextDead ==
    \/ \E name \in FewNames, started \in BOOLEAN : get_or_create_session(name, started)
    \/ Respond
    \/ \E f \in FewFiles : \E at \in 1..(Len(disk) + 1) : DiskAdd(f, at)
    \/ \E n \in FewNames : SessionDies(n)

SpecDead == InitGen /\ [][NextDead]_vars

\* C22: the session that get_or_create_session returns has a child that is
\* alive
C22_ReturnsLive ==
    [][(GetOrCreateStep /\ returned'.session # NoSession) =>
           returned'.session.process \in alive']_vars


----------------------------------------------------------------------------
(* generate: what becomes of each dequeued line                             *)

\* the dequeued lines that differ from the prompt after both are trimmed
Others(t) == SelectSeq(dequeued[t], LAMBDA l : Strip(l) # Strip(prompt[t]))

\* of those, the lines that are not blank
Answer(t) == SelectSeq(Others(t), LAMBDA l : l # <<>>)

RECURSIVE TrailingBlanks(_)
\* how many blank lines end the sequence
TrailingBlanks(seq) ==
    IF seq = <<>> THEN 0
    ELSE IF seq[Len(seq)] # <<>> THEN 0
    ELSE 1 + TrailingBlanks(SubSeq(seq, 1, Len(seq) - 1))

\* the caller is in its poll loop or past it
Polling(t) == pc[t] \in {"poll", "finish", "done"}

\* C24: a dequeued line that equals the prompt after trimming is not
\* appended, not yielded and not counted; every other line that is not blank
\* is appended and, when streaming, yielded with a line break, in dequeue
\* order
C24_EchoDiscarded ==
    \A t \in Callers :
        Polling(t) =>
            /\ response_lines[t] = Answer(t)
            /\ empty_line_count[t] = TrailingBlanks(Others(t))
            /\ stream[t] =>
                  chunks[t] = [i \in 1..Len(Answer(t)) |-> Answer(t)[i] \o <<NL>>]

\* a streaming call dequeued a blank line, an echo of its prompt with a
\* leading space, a blank line and a line of text
C24_Witness ==
    /\ stream[1]
    /\ prompt[1] = Q
    /\ dequeued[1] = <<Blank, <<SP, "Q">>, Blank, Hi>>
    /\ response_lines[1] = <<Hi>>


----------------------------------------------------------------------------
(* generate: the two modes                                                  *)

\* why the poll loop of caller t is left by the step, told from the lines
\* dequeued and the clock alone: None when the step does not leave it
EndReason(t) ==
    IF dequeued'[t] # dequeued[t]
    THEN LET line == dequeued'[t][Len(dequeued'[t])]
         IN  IF Strip(line) = Strip(prompt[t]) THEN None
             ELSE IF line = <<>> /\ TrailingBlanks(Others(t)') > 2 THEN "blank"
             ELSE IF now - start_time[t] > Budget THEN "budget"
             ELSE None
    ELSE IF now' # now /\ Answer(t) # <<>> /\ now' - start_time[t] > IdleLimit
    THEN "idle"
    ELSE None

\* what has been yielded to the caller, told from the collected lines
Yielded(t) ==
    IF stream[t]
    THEN [i \in 1..Len(response_lines[t]) |-> response_lines[t][i] \o <<NL>>]
    ELSE IF pc[t] = "done" THEN <<Join(response_lines[t])>>
    ELSE <<>>

\* C25: both modes leave the poll loop at the same point, which depends on
\* the dequeued lines and the clock and not on the mode; streaming yields the
\* collected lines one by one, and non-streaming yields one chunk, after the
\* loop, that is those lines joined by line breaks
C25_SameCompletion ==
    [][\A t \in Callers :
          /\ Polling(t)' => chunks'[t] = Yielded(t)'
          /\ pc[t] = "poll" =>
                IF EndReason(t) = None
                THEN pc'[t] = "poll"
                ELSE pc'[t] = "finish" /\ endedBy'[t] = EndReason(t)]_vars

\* a non-streaming call that collected two lines has ended by the idle rule
\* and yielded their join
C25_Witness ==
    /\ ~stream[1]
    /\ pc[1] = "done"
    /\ endedBy[1] = "idle"
    /\ Len(response_lines[1]) = 2
    /\ chunks[1] = <<Join(response_lines[1])>>


----------------------------------------------------------------------------
(* scan_models: the mapping a scan leaves                                   *)

\* the files of the directory, as the last scan found it, that are model files
ModelFiles == {scanned[i] : i \in {k \in 1..Len(scanned) : EndsWith(scanned[k], GGUF)}}

\* the four aliases every model file is given: file name, stem, lowercase
\* stem, and lowercase stem with "-" and "." replaced by "_"
BasicAliases(f) ==
    {f, PathStem(f), Lower(PathStem(f)),
     Replace(Replace(Lower(PathStem(f)), "-", "_"), ".", "_")}

\* every alias the scan derives from file f
Derived(f) == {FileAssignments(f)[i][1] : i \in 1..Len(FileAssignments(f))}

\* the aliases of the mapping
Keys(reg) == {reg[i][1] : i \in 1..Len(reg)}

\* C27: the mapping is a function from alias to path, every path is that of
\* a model file the scan found, the four basic aliases of every such file
\* are aliases, and each maps to the file when no other file derives it
C27_ScanMapping ==
    /\ \A i, j \in 1..Len(MODEL_REGISTRY) :
          MODEL_REGISTRY[i][1] = MODEL_REGISTRY[j][1] => i = j
    /\ \A i \in 1..Len(MODEL_REGISTRY) :
          \E f \in ModelFiles : MODEL_REGISTRY[i][2] = PathStr(f)
    /\ \A f \in ModelFiles :
          \A a \in BasicAliases(f) :
              /\ a \in Keys(MODEL_REGISTRY)
              /\ (\A g \in ModelFiles \ {f} : a \notin Derived(g)) =>
                     Lookup(MODEL_REGISTRY, a) = PathStr(f)

\* a scan found two model files, the stem of one
\* being the file name of the other
C27_Witness ==
    /\ scan_history # "none"
    /\ Len(scanned) = 2
    /\ Cardinality(ModelFiles) = 2
    /\ \E f, g \in ModelFiles : f # g /\ f \in BasicAliases(g)


----------------------------------------------------------------------------
(* scan_models and get_model_path: what they leave alone                    *)

\* MODELS_DIR is deleted with the files in it
DirRemove ==
    /\ last = <<>>
    /\ models_dir
    /\ models_dir' = FALSE
    /\ disk' = <<>>
    /\ scan_history' = "none"
    /\ UNCHANGED <<MODEL_REGISTRY, scanned, last, genVars, sessVars, tornVars>>

\* listings, lookups and session requests, served one after the other, while
\* files come and the directory goes
NextFrame ==
    \/ scan_models
    \/ \E name \in FewNames : get_model_path(name)
    \/ \E name \in FewNames, started \in BOOLEAN : get_or_create_session(name, started)
    \/ Respond
    \/ \E f \in FewFiles : \E at \in 1..(Len(disk) + 1) : DiskAdd(f, at)
    \/ DirRemove

SpecFrame == InitGen /\ [][NextFrame]_vars

\* model listings, each a scan, while files come and go and the directory
\* may be deleted
NextScan ==
    \/ scan_models
    \/ \E f \in FileNames : \E at \in 1..(Len(disk) + 1) : DiskAdd(f, at)
    \/ \E at \in 1..MaxFiles : DiskRemove(at)
    \/ DirRemove

SpecScan == InitGen /\ [][NextScan]_vars

\* a step that is a call of scan_models(): it makes a mapping, or counts as
\* a scan, and answers no request
ScanStep ==
    /\ last' = last
    /\ MODEL_REGISTRY' # MODEL_REGISTRY \/ scan_history' \notin {scan_history, "none"}

\* a step that is a call of get_model_path() on a mapping that is not empty
ResolveStep == last = <<>> /\ last' # <<>> /\ returned' = returned /\ MODEL_REGISTRY # <<>>

\* what neither call may touch: the files, the session table, the sessions'
\* children and queues
Kept28 == <<disk, sessVars, genVars, tornVars>>

\* C28 as stated: scan_models() changes nothing but the mapping, and
\* get_model_path() on a mapping that is not empty changes nothing
C28_ScanFrame ==
    [][/\ ScanStep => UNCHANGED <<Kept28, models_dir>>
       /\ ResolveStep => UNCHANGED <<Kept28, models_dir, MODEL_REGISTRY>>]_vars

\* C28 as amended: scan_models() changes nothing but the mapping, except
\* that it creates MODELS_DIR when the directory does not exist; it never
\* removes the directory or touches a file, the session table, a child or a
\* queue; get_model_path() on a mapping that is not empty changes nothing
C28_ScanFrameMkdir ==
    [][/\ ScanStep => (UNCHANGED Kept28 /\ models_dir')
       /\ ResolveStep => UNCHANGED <<Kept28, models_dir, MODEL_REGISTRY, scanned,
                                     scan_history>>]_vars

\* a session is stored, the directory has been deleted and then scanned, so
\* it exists again, and a lookup on the mapping scanned before has been
\* answered
C28_Witness ==
    /\ ACTIVE_SESSIONS # <<>>
    /\ models_dir
    /\ scanned = <<>>
    /\ scan_history = "replaced"
    /\ MODEL_REGISTRY = <<>>


----------------------------------------------------------------------------
(* get_or_create_session, statement by statement, on two request threads    *)

\* lines 326-328: model_path = get_model_path(model_name), and None is
\* returned when there is no path
GocResolve(t, model_name) ==
    /\ goc[t].pc = "idle"
    /\ MODEL_REGISTRY' = Refreshed(MODEL_REGISTRY, disk)
    /\ models_dir' = (MODEL_REGISTRY = <<>> \/ models_dir)
    /\ scanned' = IF MODEL_REGISTRY = <<>> THEN disk ELSE scanned
    /\ scan_history' = IF MODEL_REGISTRY = <<>> THEN "first" ELSE scan_history
    /\ LET path == Resolve(model_name, MODEL_REGISTRY', disk).path
       IN  goc' = [goc EXCEPT ![t] =
                      [pc |-> IF path = NotFound THEN "returned" ELSE "test",
                       name |-> model_name, path |-> path, ret |-> NoSession]]
    /\ UNCHANGED <<emitted, records, disk, last, sessVars, tornVars, spawned, loopVars,
                   runVars, alive, readers, life, last_call, cleared, shutVars>>

\* line 330: if model_name not in ACTIVE_SESSIONS
GocTest(t) ==
    /\ goc[t].pc = "test"
    /\ goc' = [goc EXCEPT ![t].pc =
                  IF goc[t].name \in DOMAIN ACTIVE_SESSIONS THEN "fetch" ELSE "create"]
    /\ UNCHANGED <<emitted, records, regVars, spawned, loopVars, runVars, alive, readers,
                   life, last_call, cleared, shutVars>>

\* lines 331-332: a session is constructed and started: its child runs
GocStart(t) ==
    /\ goc[t].pc = "create"
    /\ spawned' = spawned + 1
    /\ alive' = alive \cup {spawned'}
    /\ goc' = [goc EXCEPT ![t].pc = "store",
                          ![t].ret = [model_path |-> goc[t].path, process |-> spawned']]
    /\ UNCHANGED <<emitted, records, regVars, loopVars, runVars, readers, life,
                   last_call, cleared, shutVars>>

\* line 333: ACTIVE_SESSIONS[model_name] = session
GocStore(t) ==
    /\ goc[t].pc = "store"
    /\ ACTIVE_SESSIONS' = (goc[t].name :> goc[t].ret) @@ ACTIVE_SESSIONS
    /\ goc' = [goc EXCEPT ![t].pc = "fetch"]
    /\ UNCHANGED <<emitted, records, dirVars, returned, tornVars, models_dir, spawned,
                   loopVars, runVars, alive, readers, life, last_call, cleared, shutVars>>

\* line 335: return ACTIVE_SESSIONS[model_name]
GocFetch(t) ==
    /\ goc[t].pc = "fetch"
    /\ goc' = [goc EXCEPT ![t].pc = "returned",
                          ![t].ret = ACTIVE_SESSIONS[goc[t].name]]
    /\ UNCHANGED <<emitted, records, regVars, spawned, loopVars, runVars, alive, readers,
                   life, last_call, cleared, shutVars>>

\* two request threads of the threaded server (line 696), each in
\* get_or_create_session once, for names of its choice
NextRace ==
    \/ \E t \in Callers, name \in FewNames : GocResolve(t, name)
    \/ \E t \in Callers : GocTest(t)
    \/ \E t \in Callers : GocStart(t)
    \/ \E t \in Callers : GocStore(t)
    \/ \E t \in Callers : GocFetch(t)
    \/ \E f \in FewFiles : \E at \in 1..(Len(disk) + 1) : DiskAdd(f, at)

SpecRace == InitGen /\ [][NextRace]_vars

\* the children of the sessions in the table
Tabled == {ACTIVE_SESSIONS[n].process : n \in DOMAIN ACTIVE_SESSIONS}

\* the children of the sessions that get_or_create_session has started
Started == alive \ {process}

\* C29: threads that asked for the same name are given the same session,
\* one child has been spawned for the name, and when every call has
\* returned every started session is in the table
C29_OneSessionPerName ==
    (\A t \in Callers : goc[t].pc = "returned") =>
        /\ \A t, u \in Callers :
              (goc[t].name = goc[u].name /\ goc[t].ret # NoSession
                   /\ goc[u].ret # NoSession) => goc[t].ret = goc[u].ret
        /\ Started \subseteq Tabled

(* C31: the order of the steps of one generate call                         *)

OrderMaxLines == 3  \* lines the child writes in a run of the step-order model
OrderHorizon == 1   \* clock cap of the polls that find nothing in that model

\* two generate calls made one after the other on one session, whose child
\* writes output when it likes and may exit
NextOrder ==
    \/ \E blank \in BOOLEAN : ChildEmit(blank, OrderMaxLines)
    \/ ChildDies
    \/ \E r \in ReaderIds : ReaderCheck(r)
    \/ \E r \in ReaderIds : ReaderCall(r)
    \/ \E r \in ReaderIds : PipeRead(r)
    \/ \E r \in ReaderIds : PipeEnd(r)
    \/ \E t \in Callers, s \in BOOLEAN : Quiet /\ GenBegin(t, ConcPrompt(t), s)
    \/ \E t \in Callers : GenDrainCheck(t)
    \/ \E t \in Callers : GenDrainGet(t)
    \/ \E t \in Callers : GenWrite(t)
    \/ \E t \in Callers : GenPollLine(t)
    \/ \E t \in Callers : GenPollEmpty(t, OrderHorizon)
    \/ \E t \in Callers : GenFinish(t)

SpecOrder == InitGen /\ [][NextOrder]_vars

\* the callers whose generate call has written its prompt
Written == {t \in Callers : pc[t] \in {"poll", "finish", "done"}}

\* the positions of generate before the prompt is written
BeforeWrite == {"idle", "drain", "drain_get", "write"}

\* what holds of every state: one line on the child's standard input for
\* each call that has passed its write and none for the others, no line
\* consumed by a call that has not written its prompt, one child at most
OncePerCall ==
    /\ Len(stdin) = Cardinality(Written)
    /\ \A t \in Written : \E i \in 1..Len(stdin) : stdin[i] = prompt[t] \o <<NL>>
    /\ \A t \in Callers : pc[t] \in BeforeWrite => dequeued[t] = <<>>
    /\ spawned <= 1

\* what holds of every step, for the call of caller t: stale lines are
\* dropped only before the write, lines are consumed only after it, the write
\* appends the prompt and a line break once or raises, and a call that has
\* ended or raised does nothing more
OrderedStep(t) ==
    /\ drained'[t] # drained[t] => pc[t] = "drain_get"
    /\ dequeued'[t] # dequeued[t] => pc[t] = "poll"
    /\ pc[t] = "write" /\ pc'[t] # pc[t] =>
           \/ pc'[t] = "poll" /\ stdin' = Append(stdin, prompt[t] \o <<NL>>)
           \/ pc'[t] = "raised" /\ stdin' = stdin
    /\ pc[t] \in {"done", "raised"} => pc'[t] = pc[t]
    /\ pc[t] # "idle" => prompt'[t] = prompt[t]

\* what holds of every step, for the session: the standard input grows only
\* by a call's write, and a child is spawned only as a call begins
OrderedSession ==
    /\ stdin' # stdin => \E t \in Callers : pc[t] = "write" /\ pc'[t] = "poll"
    /\ spawned' # spawned => \E t \in Callers : pc[t] = "idle" /\ pc'[t] = "drain"

\* C31: within one generate call the stale output is drained, then the
\* prompt and a line break are written exactly once, then the queue is
\* consumed; the prompt is never written twice nor after a line was
\* consumed, and no spawn, write or read is tried again after it failed
C31_StepsOrdered ==
    /\ []OncePerCall
    /\ [][OrderedSession /\ \A t \in Callers : OrderedStep(t)]_vars

\* a call that dropped a stale line, wrote its prompt and consumed a line
C31_Witness ==
    \E t \in Callers :
        /\ pc[t] \in {"poll", "finish", "done"}
        /\ drained[t] # <<>>
        /\ dequeued[t] # <<>>

(* C32: the one-shot child's standard error, captured and not read          *)

ErrCapacity == 2    \* lines the pipe of the child's standard error holds

\* the child writes a line to its standard error: the pipe has room for it
ChildErrWrite ==
    /\ child = "running"
    /\ stderr_pipe < ErrCapacity
    /\ stderr_pipe' = stderr_pipe + 1
    /\ UNCHANGED <<run_pc, run_stream, child, stdout_open, pipe, nwritten, returncode,
                   bad_stderr, full_response, yielded, consumed, ended_child, exc,
                   spawned, loopVars, regVars, lifeVars>>

\* the child writes a line to its standard error and the pipe is full: the
\* write blocks until a reader makes room, and lines 236-248 read nothing
\* from process.stderr
ChildErrBlock ==
    /\ child = "running"
    /\ stderr_pipe = ErrCapacity
    /\ child' = "blocked"
    /\ UNCHANGED <<run_pc, run_stream, stdout_open, pipe, nwritten, returncode,
                   bad_stderr, full_response, yielded, consumed, ended_child, exc,
                   stderr_pipe, spawned, loopVars, regVars, lifeVars>>

\* one run of the runner beside a child that writes some lines to its
\* standard output and to its standard error and then exits
NextErr ==
    \/ \E s \in BOOLEAN, launches \in BOOLEAN : RunBegin(s, launches)
    \/ \E raw \in RunRawLines : ChildWrite(raw)
    \/ ChildErrWrite
    \/ ChildErrBlock
    \/ ChildClose
    \/ \E code \in {0, 1}, bad \in BOOLEAN : ChildExit(code, bad)
    \/ RunReadLine
    \/ RunReadEnd
    \/ RunWait
    \/ RunJoin
    \/ RunCheck
    \/ RunExcept

\* the runner and the child are two processes the system schedules: each
\* takes its next step when it has one
SpecErr == InitGen /\ [][NextErr]_vars /\ WF_vars(NextErr)

\* C32: a one-shot run reaches its end-of-sequence for every child that
\* writes finitely many lines to its standard output and standard error and
\* then exits
C32_RunEnds == <>(run_pc = "done")

(* C33: a request that names no model                                       *)

\* line 451 (chat) and line 537 (generate_completion): data.get('model', '')
DefaultModel == <<>>

\* chat and completion requests that carry no model field, served one after
\* the other while the model directory changes and is listed
NextDefault ==
    \/ scan_models
    \/ \E started \in BOOLEAN : get_or_create_session(DefaultModel, started)
    \/ Respond
    \/ \E f \in FewFiles : \E at \in 1..(Len(disk) + 1) : DiskAdd(f, at)
    \/ \E at \in 1..MaxFiles : DiskRemove(at)

SpecDefault == InitGen /\ [][NextDefault]_vars

\* C33: a request whose model name is the empty string resolves to
\* not-found: no path is selected and no session or child is started for
\* it, whatever the registry holds
C33_EmptyNotFound ==
    /\ (returned # <<>> /\ returned.name = DefaultModel) =>
           /\ last.path = NotFound
           /\ returned.session = NoSession
    /\ DefaultModel \notin DOMAIN ACTIVE_SESSIONS

============================================================================
